---- MODULE Spec2Model ----
(***************************************************************************)
(* The coherence checks of the built-in traits Drop, Copy, CoerceUnsized   *)
(* and DispatchFromDyn: compiler/rustc_typeck/src/coherence/builtin.rs,    *)
(* with the diagnostics of compiler/rustc_typeck/src/errors.rs.            *)
(*                                                                         *)
(* One behaviour is one call of check_trait: the session's lang-item       *)
(* table, the trait being checked and its registered impls are fixed by    *)
(* Init, the answers of the trait solver and of the region checker are     *)
(* inputs, and the diagnostics handed to the session are collected, in     *)
(* order, in sink.                                                         *)
(***************************************************************************)
EXTENDS Naturals, Sequences, FiniteSets, TLC

VARIABLES
    trait_def_id,         \* Checker.trait_def_id: the trait check_trait is called for
    lang_items,           \* tcx.lang_items(): the lang items that are defined
    impls,                \* tcx.hir().trait_impls(trait_def_id), in registry order
    idx,                  \* position of Checker::check's loop in impls
    pc,                   \* the statement the pass is at
    sink,                 \* tcx.sess: the diagnostics emitted so far, in order
    mark,                 \* what had been emitted, entered and solved when the
                          \* visitor of the current impl was called
    log,                  \* the calls Checker::check has made: the impl, the visitor,
                          \* where its diagnostics start, what the solver answered
    solver,               \* answers of traits::fully_solve_bound(.., ty, Copy), by type
    err,                  \* visit_implementation_of_copy: the E0204 builder
    errors,               \* visit_implementation_of_copy: BTreeMap (ty, predicate) -> spans
    bounds,               \* visit_implementation_of_copy: Vec of suggested bounds
    fi,                   \* visit_implementation_of_copy: position of the field loop
    infcx,                \* the inference contexts that are live (innermost last)
    infcx_created,        \* how many inference contexts the session has entered
    solver_calls,         \* how many times the trait solver has been called
    cx,                   \* coerce_unsized_info / dispatch_from_dyn: locals after the match
    coerce_unsized_info   \* the CoerceUnsizedInfo returned for each impl checked

vars == << trait_def_id, lang_items, impls, idx, pc, sink, mark, log, solver, err, errors,
           bounds, fi, infcx, infcx_created, solver_calls, cx, coerce_unsized_info >>

(***************************************************************************)
(* Bounds of the model.                                                    *)
(***************************************************************************)
\* fields of a struct definition (and so infringing fields of a Copy impl)
MaxFields == 2
\* fulfillment errors the solver returns for one field
MaxErrors == 2
\* impls registered for the trait in the sessions with more than one impl
MaxImpls == 2

None == [tag |-> "None"]
Some(v) == [tag |-> "Some", value |-> v]

SeqsUpTo(S, n) == UNION { [1..k -> S] : k \in 0..n }
NonEmptySeqsUpTo(S, n) == UNION { [1..k -> S] : k \in 1..n }
\* sequences without a repeated element
IsInjective(s) == \A i, j \in 1..Len(s) : s[i] = s[j] => i = j

(***************************************************************************)
(* Types (rustc_middle::ty::TyKind), as far as the checks look at them.    *)
(***************************************************************************)
TyParam(i, n) == [kind |-> "Param", index |-> i, name |-> n]
TyPrim(n) == [kind |-> "Prim", name |-> n]
TyError == [kind |-> "Error"]
TyArray(n) == [kind |-> "Array", len |-> n]        \* [i32; n]; n = "N" is an unevaluated constant
TySlice == [kind |-> "Slice"]                      \* [i32]
TyRawPtr(m, t) == [kind |-> "RawPtr", mutbl |-> m, ty |-> t]
TyRef(r, m, t) == [kind |-> "Ref", region |-> r, mutbl |-> m, ty |-> t]
TyAdt(def, substs) == [kind |-> "Adt", def |-> def, substs |-> substs]

\* An AdtDef: its DefId, what it is, its #[repr], its fields (name, declared type)
AdtDef(krate, path, adt_kind, repr, fields) ==
    [did |-> [krate |-> krate, path |-> path], adt_kind |-> adt_kind,
     repr |-> repr, fields |-> fields]
FieldDef(name, ty) == [name |-> name, ty |-> ty]

PhantomDataDef == AdtDef("core", "PhantomData", "Struct", "Rust", << >>)
TyPhantomData(t) == TyAdt(PhantomDataDef, << t >>)

\* Ty::is_phantom_data
is_phantom_data(ty) == ty.kind = "Adt" /\ ty.def.did = PhantomDataDef.did

\* DefId::is_local
is_local(did) == did.krate = "local"

RECURSIVE JoinArgs(_, _)
RECURSIVE to_string(_)
\* Display of a type
to_string(ty) ==
    CASE ty.kind = "Param" -> ty.name
      [] ty.kind = "Prim" -> ty.name
      [] ty.kind = "Error" -> "{type error}"
      [] ty.kind = "Array" -> "[i32; " \o ty.len \o "]"
      [] ty.kind = "Slice" -> "[i32]"
      [] ty.kind = "RawPtr" ->
            (IF ty.mutbl = "Mut" THEN "*mut " ELSE "*const ") \o to_string(ty.ty)
      [] ty.kind = "Ref" ->
            "&" \o ty.region \o (IF ty.mutbl = "Mut" THEN " mut " ELSE " ") \o to_string(ty.ty)
      [] ty.kind = "Adt" ->
            IF ty.substs = << >> THEN ty.def.did.path
            ELSE ty.def.did.path \o "<" \o JoinArgs(ty.substs, 1) \o ">"
JoinArgs(substs, i) ==
    IF i > Len(substs) THEN ""
    ELSE to_string(substs[i]) \o (IF i < Len(substs) THEN ", " ELSE "") \o JoinArgs(substs, i + 1)

(***************************************************************************)
(* Predicates (ty::Predicate) and fulfillment errors.                      *)
(***************************************************************************)
TraitPredicate(self_ty, trait) ==
    [kind |-> "Trait", self_ty |-> self_ty, trait |-> trait, polarity |-> "Positive"]
\* <self_ty as trait>::item == ty
ProjectionPredicate(self_ty, trait, item, ty) ==
    [kind |-> "Projection",
     projection_ty |-> [kind |-> "Projection", self_ty |-> self_ty, trait |-> trait,
                        item |-> item],
     ty |-> ty]

\* Display of a predicate
predicate_to_string(p) ==
    IF p.kind = "Trait" THEN to_string(p.self_ty) \o ": " \o p.trait
    ELSE "<" \o to_string(p.projection_ty.self_ty) \o " as " \o p.projection_ty.trait
             \o ">::" \o p.projection_ty.item \o " == " \o to_string(p.ty)

\* A FulfillmentError: the unmet obligation, the root obligation it came from,
\* and the span of the unmet obligation's cause
FulfillmentError(predicate, root, span) ==
    [obligation |-> [predicate |-> predicate, cause |-> [span |-> span]],
     root_obligation |-> [predicate |-> root]]

(***************************************************************************)
(* Ord for String is the order of the bytes: BTreeMap iterates its keys in *)
(* that order.  Bytes gives the UTF-8 bytes of the texts of the model.     *)
(***************************************************************************)
Bytes(s) ==
    CASE s = "T" -> << 84 >>
      [] s = "Q<T, U>" -> << 81, 60, 84, 44, 32, 85, 62 >>
      [] s = "W<String>" -> << 87, 60, 83, 116, 114, 105, 110, 103, 62 >>
      [] s = "I<T>" -> << 73, 60, 84, 62 >>
      [] s = "T: Copy" -> << 84, 58, 32, 67, 111, 112, 121 >>
      [] s = "U: Copy" -> << 85, 58, 32, 67, 111, 112, 121 >>
      [] s = "String: Copy" -> << 83, 116, 114, 105, 110, 103, 58, 32, 67, 111, 112, 121 >>
      [] s = "<T as Iterator>::Item == u8" ->
            << 60, 84, 32, 97, 115, 32, 73, 116, 101, 114, 97, 116, 111, 114, 62,
               58, 58, 73, 116, 101, 109, 32, 61, 61, 32, 117, 56 >>
      [] s = "Q<T, U>: Copy" -> << 81, 60, 84, 44, 32, 85, 62, 58, 32, 67, 111, 112, 121 >>
      [] s = "W<String>: Copy" ->
            << 87, 60, 83, 116, 114, 105, 110, 103, 62, 58, 32, 67, 111, 112, 121 >>
      [] s = "I<T>: Copy" -> << 73, 60, 84, 62, 58, 32, 67, 111, 112, 121 >>

\* a < b for byte strings: a proper prefix, or smaller at the first difference
LexLess(a, b) ==
    \E i \in 1..(Len(b)) :
        /\ \A j \in 1..(i - 1) : j <= Len(a) /\ a[j] = b[j]
        /\ \/ i = Len(a) + 1
           \/ i <= Len(a) /\ a[i] < b[i]

\* Ord for String
StrLess(s, t) == s # t /\ LexLess(Bytes(s), Bytes(t))

\* Ord for (String, String), the key of the errors map
KeyLess(k, l) == StrLess(k[1], l[1]) \/ (k[1] = l[1] /\ StrLess(k[2], l[2]))

(***************************************************************************)
(* BTreeMap<(String, String), Vec<Span>>: its entries, in iteration order. *)
(***************************************************************************)
BTreeKeys(map) == { map[i].key : i \in 1..Len(map) }

\* A map that keeps its entries in insertion order (an IndexMap, a Vec of pairs)
InsertionOrderPush(map, key, span) ==
    IF key \in BTreeKeys(map)
    THEN [i \in 1..Len(map) |->
            IF map[i].key = key THEN [map[i] EXCEPT !.spans = Append(@, span)] ELSE map[i]]
    ELSE Append(map, [key |-> key, spans |-> << span >>])

\* errors.entry(key).or_default().push(span)
entry_or_default_push(map, key, span) ==
    IF key \in BTreeKeys(map)
    THEN [i \in 1..Len(map) |->
            IF map[i].key = key THEN [map[i] EXCEPT !.spans = Append(@, span)] ELSE map[i]]
    ELSE LET before == Cardinality({ i \in 1..Len(map) : KeyLess(map[i].key, key) })
         IN  SubSeq(map, 1, before) \o << [key |-> key, spans |-> << span >>] >>
                \o SubSeq(map, before + 1, Len(map))

(***************************************************************************)
(* Spans                                                                   *)
(***************************************************************************)
\* tcx.hir().span(impl_hir_id), tcx.def_span(impl_did): the impl item
impl_span(impl_did) == [impl |-> impl_did, at |-> "item"]
\* impl_.self_ty.span
self_ty_span(impl_did) == [impl |-> impl_did, at |-> "self_ty"]
\* of_trait: Some(tr) => tr.path.span
of_trait_path_span(impl_did) == [impl |-> impl_did, at |-> "of_trait"]
\* tcx.def_span(field.did)
field_span(field) == [field |-> field.name, at |-> "def"]
\* field_def.ty.span of a local field
field_ty_span(field) == [field |-> field.name, at |-> "ty"]

(***************************************************************************)
(* Diagnostics (errors.rs)                                                 *)
(***************************************************************************)
DropImplOnWrongItem(span) ==
    [slug |-> "typeck::drop_impl_on_wrong_item", code |-> "E0120", span |-> span]
CopyImplOnTypeWithDtor(span) ==
    [slug |-> "typeck::copy_impl_on_type_with_dtor", code |-> "E0184", span |-> span]
CopyImplOnNonAdt(span) ==
    [slug |-> "typeck::copy_impl_on_non_adt", code |-> "E0206", span |-> span]
\* struct_span_err!(tcx.sess, span, E0204, ..): the builder of the aggregated diagnostic
CopyImplBuilder(span) ==
    [slug |-> "the trait Copy may not be implemented for this type", code |-> "E0204",
     span |-> span, labels |-> << >>, notes |-> << >>, suggest |-> << >>]

(***************************************************************************)
(* The lang-item table and the dispatcher (check_trait, Checker::check)    *)
(***************************************************************************)
AllLangItems == { "Drop", "Copy", "CoerceUnsized", "DispatchFromDyn", "Unsize" }

\* lang_items.drop_trait() and the like: the DefId of a lang item that is defined
lang_item(name) == IF name \in lang_items THEN Some(name) ELSE None

\* a dispatch on the trait alone, without the lang-item table
visitor_without_table ==
    CASE trait_def_id = "Drop" -> "drop"
      [] trait_def_id = "Copy" -> "copy"
      [] trait_def_id = "CoerceUnsized" -> "coerce_unsized"
      [] trait_def_id = "DispatchFromDyn" -> "dispatch_from_dyn"
      [] OTHER -> "none"

\* check_trait: the visitor of the first .check(..) whose lang item is the trait
visitor ==
    CASE Some(trait_def_id) = lang_item("Drop") -> "drop"
      [] Some(trait_def_id) = lang_item("Copy") -> "copy"
      [] Some(trait_def_id) = lang_item("CoerceUnsized") -> "coerce_unsized"
      [] Some(trait_def_id) = lang_item("DispatchFromDyn") -> "dispatch_from_dyn"
      [] OTHER -> "none"

\* a loop that goes on only while the session has no error
check_visit_until_error ==
    /\ pc = "check"
    /\ visitor # "none"
    /\ idx <= Len(impls)
    /\ sink = << >>
    /\ pc' = visitor
    /\ mark' = [sink |-> Len(sink), infcx_created |-> infcx_created,
                solver_calls |-> solver_calls]
    /\ log' = Append(log, [impl_did |-> idx, visitor |-> visitor, from |-> Len(sink),
                            answer |-> None])
    /\ cx' = None
    /\ UNCHANGED << trait_def_id, lang_items, impls, idx, sink, solver, err, errors,
                    bounds, fi, infcx, infcx_created, solver_calls,
                    coerce_unsized_info >>

\* Checker::check: f(self.tcx, impl_def_id) for the next impl of the trait
check_visit ==
    /\ pc = "check"
    /\ visitor # "none"
    /\ idx <= Len(impls)
    /\ pc' = visitor
    /\ mark' = [sink |-> Len(sink), infcx_created |-> infcx_created,
                solver_calls |-> solver_calls]
    /\ log' = Append(log, [impl_did |-> idx, visitor |-> visitor, from |-> Len(sink),
                            answer |-> None])
    /\ cx' = None
    /\ UNCHANGED << trait_def_id, lang_items, impls, idx, sink, solver, err, errors,
                    bounds, fi, infcx, infcx_created, solver_calls,
                    coerce_unsized_info >>

\* Checker::check: the trait is not the lang item, or the loop is over
check_return ==
    /\ pc = "check"
    /\ (visitor = "none" \/ idx > Len(impls))
    /\ pc' = "done"
    /\ UNCHANGED << log, mark, trait_def_id, lang_items, impls, idx, sink, solver, err, errors,
                    bounds, fi, infcx, infcx_created, solver_calls, cx,
                    coerce_unsized_info >>

(***************************************************************************)
(* visit_implementation_of_drop                                            *)
(***************************************************************************)
\* the match without the test that the ADT is local
drop_impl_allowed_any_crate(ty) ==
    \/ ty.kind = "Adt"
    \/ ty.kind = "Error"

\* the match on the self type: the arms that return
drop_impl_allowed(ty) ==
    \/ ty.kind = "Adt" /\ is_local(ty.def.did)
    \/ ty.kind = "Error"

visit_implementation_of_drop ==
    /\ pc = "drop"
    /\ sink' = IF drop_impl_allowed(impls[idx].self_ty) THEN sink
               ELSE Append(sink, DropImplOnWrongItem(self_ty_span(idx)))
    /\ pc' = "check"
    /\ idx' = idx + 1
    /\ UNCHANGED << log, mark, trait_def_id, lang_items, impls, solver, err, errors, bounds, fi,
                    infcx, infcx_created, solver_calls, cx, coerce_unsized_info >>

(***************************************************************************)
(* visit_implementation_of_copy                                            *)
(***************************************************************************)
\* tcx.infer_ctxt()..enter(|infcx| ..): a new inference context
enter_infcx(ignoring_regions) ==
    Append(infcx, [id |-> infcx_created + 1, ignoring_regions |-> ignoring_regions,
                   region_obligations |-> {}])
\* a closure whose inference context outlives it
exit_infcx_leaking == infcx
\* the closure returns: its inference context is dropped
exit_infcx == SubSeq(infcx, 1, Len(infcx) - 1)

\* traits::fully_solve_bound(&infcx, cause, param_env, ty, copy_trait): the errors of
\* the obligation ty: Copy, each with the cause's span
fully_solve_bound(ty, span) ==
    [i \in 1..Len(solver[ty]) |->
        FulfillmentError(solver[ty][i], TraitPredicate(ty, "Copy"), span)]

\* a test that notes the root obligation too
is_not_root_always(error) == TRUE
\* "Only note if it's not the root obligation"
is_not_root(error) == error.obligation.predicate # error.root_obligation.predicate

\* the test without the look at the kind of the self type
is_param_bound_any_self_ty(error_predicate) ==
    /\ error_predicate.kind = "Trait"
    /\ error_predicate.polarity = "Positive"

\* the unmet predicate is a positive trait predicate on a type parameter
is_param_bound(error_predicate) ==
    /\ error_predicate.kind = "Trait"
    /\ error_predicate.polarity = "Positive"
    /\ error_predicate.self_ty.kind = "Param"

\* the triple pushed to bounds
bound_of(error_predicate) ==
    [param |-> to_string(error_predicate.self_ty),
     constraint |-> error_predicate.trait,
     def_id |-> Some(error_predicate.trait)]

RECURSIVE for_each_error(_, _, _, _)
\* the body of "for error in traits::fully_solve_bound(..)" from error i on;
\* acc holds errors and bounds
for_each_error(errs, i, ty, acc) ==
    IF i > Len(errs) THEN acc
    ELSE LET error == errs[i]
             error_predicate == error.obligation.predicate
             noted == IF is_not_root(error)
                      THEN entry_or_default_push(
                               acc.errors,
                               << to_string(ty), predicate_to_string(error_predicate) >>,
                               error.obligation.cause.span)
                      ELSE acc.errors
             pushed == IF is_param_bound(error_predicate)
                       THEN Append(acc.bounds, bound_of(error_predicate))
                       ELSE acc.bounds
         IN  for_each_error(errs, i + 1, ty, [errors |-> noted, bounds |-> pushed])

\* the fields of Err(CopyImplementationError::InfrigingFields(fields))
infringing_fields == impls[idx].can_type_implement_copy.fields

\* the arms with an empty HasDestructor arm
copy_impl_error_silent_dtor(result, impl_did) ==
    CASE result = "Ok" -> << >>
      [] result = "NotAnAdt" -> << CopyImplOnNonAdt(self_ty_span(impl_did)) >>
      [] result = "HasDestructor" -> << >>

\* the arms of the match that do not look at fields: what each emits
copy_impl_error(result, impl_did) ==
    CASE result = "Ok" -> << >>
      [] result = "NotAnAdt" -> << CopyImplOnNonAdt(self_ty_span(impl_did)) >>
      [] result = "HasDestructor" -> << CopyImplOnTypeWithDtor(impl_span(impl_did)) >>

\* a builder that keeps only its latest label
span_label_replacing(builder, span) ==
    [builder EXCEPT !.labels =
        << [span |-> span, label |-> "this field does not implement Copy"] >>]

\* err.span_label(field_span, "this field does not implement Copy")
span_label(builder, span) ==
    [builder EXCEPT !.labels =
        Append(@, [span |-> span, label |-> "this field does not implement Copy"])]

\* match can_type_implement_copy(tcx, param_env, self_type, cause)
visit_implementation_of_copy ==
    /\ pc = "copy"
    /\ LET result == impls[idx].can_type_implement_copy.tag
       IN  CASE result \in { "Ok", "NotAnAdt", "HasDestructor" } ->
                   /\ sink' = sink \o copy_impl_error(result, idx)
                   /\ pc' = "check" /\ idx' = idx + 1
                   /\ UNCHANGED << err, errors, bounds, fi >>
             [] result = "InfrigingFields" ->
                   /\ err' = CopyImplBuilder(of_trait_path_span(idx))
                   /\ errors' = << >>
                   /\ bounds' = << >>
                   /\ fi' = 1
                   /\ pc' = "copy_field"
                   /\ UNCHANGED << sink, idx >>
    /\ UNCHANGED << log, mark, trait_def_id, lang_items, impls, solver, infcx, infcx_created,
                    solver_calls, cx, coerce_unsized_info >>

\* for (field, ty) in fields: the label, then infer_ctxt().ignoring_regions().enter
copy_field_enter ==
    /\ pc = "copy_field"
    /\ fi <= Len(infringing_fields)
    /\ err' = span_label(err, field_span(infringing_fields[fi].field))
    /\ infcx' = enter_infcx(TRUE)
    /\ infcx_created' = infcx_created + 1
    /\ pc' = "copy_solve"
    /\ UNCHANGED << log, mark, trait_def_id, lang_items, impls, idx, sink, solver, errors, bounds,
                    fi, solver_calls, cx, coerce_unsized_info >>

\* inside the closure: the loop over the errors of fully_solve_bound
copy_field_solve ==
    /\ pc = "copy_solve"
    /\ LET field == infringing_fields[fi].field
           ty == infringing_fields[fi].ty
           acc == for_each_error(fully_solve_bound(ty, field_ty_span(field)), 1, ty,
                                 [errors |-> errors, bounds |-> bounds])
       IN  /\ errors' = acc.errors
           /\ bounds' = acc.bounds
    /\ solver_calls' = solver_calls + 1
    /\ pc' = "copy_exit"
    /\ UNCHANGED << log, mark, trait_def_id, lang_items, impls, idx, sink, solver, err, fi, infcx,
                    infcx_created, cx, coerce_unsized_info >>

\* the closure returns; on to the next field
copy_field_exit ==
    /\ pc = "copy_exit"
    /\ infcx' = exit_infcx
    /\ fi' = fi + 1
    /\ pc' = "copy_field"
    /\ UNCHANGED << log, mark, trait_def_id, lang_items, impls, idx, sink, solver, err, errors,
                    bounds, infcx_created, solver_calls, cx, coerce_unsized_info >>

\* for ((ty, error_predicate), spans) in errors { err.span_note(..) }
span_notes(map) ==
    [i \in 1..Len(map) |->
        [span |-> map[i].spans, ty |-> map[i].key[1], error_predicate |-> map[i].key[2]]]

\* the bounds handed to suggest_constraining_type_params
suggested(bs) == [i \in 1..Len(bs) |-> << bs[i].param, bs[i].constraint, bs[i].def_id >>]

\* after the loop: the notes, the suggestion, err.emit()
copy_emit ==
    /\ pc = "copy_field"
    /\ fi > Len(infringing_fields)
    /\ sink' = Append(sink, [err EXCEPT !.notes = span_notes(errors),
                                        !.suggest = suggested(bounds)])
    /\ pc' = "check"
    /\ idx' = idx + 1
    /\ UNCHANGED << log, mark, trait_def_id, lang_items, impls, solver, err, errors, bounds, fi,
                    infcx, infcx_created, solver_calls, cx, coerce_unsized_info >>

(***************************************************************************)
(* What the type context answers about types: substitution, equality in    *)
(* an inference context, layout.                                           *)
(***************************************************************************)
RECURSIVE subst(_, _)
\* a type with the generic parameters replaced by substs (FieldDef::ty)
subst(ty, substs) ==
    CASE ty.kind = "Param" -> substs[ty.index + 1]
      [] ty.kind = "RawPtr" -> TyRawPtr(ty.mutbl, subst(ty.ty, substs))
      [] ty.kind = "Ref" -> TyRef(ty.region, ty.mutbl, subst(ty.ty, substs))
      [] ty.kind = "Adt" ->
            TyAdt(ty.def, [i \in 1..Len(ty.substs) |-> subst(ty.substs[i], substs)])
      [] OTHER -> ty

\* field.ty(tcx, substs)
field_ty(field, substs) == subst(field.ty, substs)

RelateOk(obligations) == [tag |-> "Ok", obligations |-> obligations]
RelateErr == [tag |-> "Err"]

RECURSIVE eq(_, _)
\* infcx.at(&cause, param_env).eq(a, b): Ok with the obligations left over, or Err.
\* Equal types relate with nothing left over; array lengths that are not both
\* evaluated leave a ConstEquate obligation; different shapes do not relate.
eq(a, b) ==
    IF a = b THEN RelateOk({})
    ELSE CASE a.kind = "Array" /\ b.kind = "Array" ->
                 IF a.len = "N" \/ b.len = "N"
                 THEN RelateOk({ [kind |-> "ConstEquate", a |-> a.len, b |-> b.len] })
                 ELSE RelateErr
           [] a.kind = "RawPtr" /\ b.kind = "RawPtr" /\ a.mutbl = b.mutbl -> eq(a.ty, b.ty)
           [] a.kind = "Ref" /\ b.kind = "Ref" /\ a.mutbl = b.mutbl -> eq(a.ty, b.ty)
           [] a.kind = "Adt" /\ b.kind = "Adt" /\ a.def = b.def
                /\ Len(a.substs) = Len(b.substs) ->
                 LET args == [i \in 1..Len(a.substs) |-> eq(a.substs[i], b.substs[i])]
                 IN  IF \E i \in 1..Len(args) : args[i].tag = "Err" THEN RelateErr
                     ELSE RelateOk(UNION { args[i].obligations : i \in 1..Len(args) })
           [] OTHER -> RelateErr

\* tcx.layout_of(param_env.and(ty)): Ok(size, align in bytes) or Err
layout_of(ty) ==
    CASE ty.kind = "Prim" /\ ty.name = "i32" -> [tag |-> "Ok", size |-> 4, align |-> 4, sized |-> TRUE]
      [] ty.kind = "Prim" /\ ty.name = "()" -> [tag |-> "Ok", size |-> 0, align |-> 1, sized |-> TRUE]
      [] ty.kind = "Array" /\ ty.len = "3" -> [tag |-> "Ok", size |-> 12, align |-> 4, sized |-> TRUE]
      [] ty.kind = "Slice" -> [tag |-> "Ok", size |-> 0, align |-> 4, sized |-> FALSE]
      [] ty.kind = "RawPtr" -> [tag |-> "Ok", size |-> 8, align |-> 8, sized |-> TRUE]
      [] ty.kind = "Ref" -> [tag |-> "Ok", size |-> 8, align |-> 8, sized |-> TRUE]
      [] is_phantom_data(ty) -> [tag |-> "Ok", size |-> 0, align |-> 1, sized |-> TRUE]
      [] OTHER -> [tag |-> "Err"]

\* Layout::is_zst
is_zst(layout) == layout.sized /\ layout.size = 0

(***************************************************************************)
(* Regions.  A region obligation sub <= sup holds when sup outlives sub:   *)
(* the same region, 'static, or a bound of the impl's param_env.           *)
(***************************************************************************)
RegionObligation(sub, sup) == [sub |-> sub, sup |-> sup]

outlives(env, sup, sub) == sup = sub \/ sup = "'static" \/ << sup, sub >> \in env

\* check_region_obligations_and_report_errors: one error for each obligation of the
\* inference context that the environment does not prove
region_errors(env, obligations, span) ==
    { [kind |-> "RegionResolutionError", sub |-> o.sub, sup |-> o.sup, span |-> span] :
        o \in { c \in obligations : ~outlives(env, c.sup, c.sub) } }

RECURSIVE SetToSeq(_)
\* the elements of a finite set, in some fixed order
SetToSeq(S) ==
    IF S = {} THEN << >>
    ELSE LET x == CHOOSE y \in S : TRUE IN << x >> \o SetToSeq(S \ { x })

(***************************************************************************)
(* Diagnostics of coerce_unsized_info (errors.rs)                          *)
(***************************************************************************)
\* a diagnostic that names the source's definition twice
CoerceUnsizedInvalidDefinition_source_twice(span, source_path, target_path) ==
    [slug |-> "typeck::coerce_unsized_invalid_definition", code |-> "E0377", span |-> span,
     source_path |-> source_path, target_path |-> source_path]
CoerceUnsizedInvalidDefinition(span, source_path, target_path) ==
    [slug |-> "typeck::coerce_unsized_invalid_definition", code |-> "E0377", span |-> span,
     source_path |-> source_path, target_path |-> target_path]
CoerceUnsizedNoCoercedField(span) ==
    [slug |-> "typeck::coerce_unsized_no_coerced_field", code |-> "E0374", span |-> span]
CoerceUnsizedTooManyCoercedFields(span, coerced_fields_len, coerced_fields) ==
    [slug |-> "typeck::coerce_unsized_no_coerced_field", code |-> "E0375", span |-> span,
     coerced_fields_len |-> coerced_fields_len, coerced_fields |-> coerced_fields]
CoerceUnsizedNotAStruct(span) ==
    [slug |-> "typeck::coerce_unsized_not_a_struct", code |-> "E0376", span |-> span]
\* infcx.report_mismatched_types(&cause, expected, found, TypeError::Mutability)
MismatchedTypes(span, expected, found) ==
    [slug |-> "mismatched types", code |-> "E0308", span |-> span,
     expected |-> expected, found |-> found, terr |-> "Mutability"]
\* infcx.report_fulfillment_errors: the diagnostic of one unmet obligation
FulfillmentDiagnostic(error) ==
    [slug |-> "unmet obligation", code |-> "E0277",
     span |-> error.obligation.cause.span, predicate |-> error.obligation.predicate]
\* tcx.sess.fatal / require_lang_item on a missing lang item
MissingLangItem(name, span) ==
    [slug |-> "requires lang_item", level |-> "fatal", lang_item |-> name, span |-> span]

\* the predicate of predicate_for_trait_def(tcx, param_env, cause, trait, 0, source, [target])
predicate_for_trait_def(trait, source, target) ==
    [kind |-> "Trait", self_ty |-> source, trait |-> trait, polarity |-> "Positive",
     substs |-> << target >>]

RECURSIVE join(_, _)
\* items[from..].join(", ")
join(items, from) ==
    IF from > Len(items) THEN ""
    ELSE items[from] \o (IF from < Len(items) THEN ", " ELSE "") \o join(items, from + 1)

\* format!("{} ({} -> {})", name, a, b); the format's quotes are left out
format_coerced_field(name, a, b) ==
    name \o " (" \o to_string(a) \o " -> " \o to_string(b) \o ")"

(***************************************************************************)
(* coerce_unsized_info (called by visit_implementation_of_coerce_unsized)  *)
(***************************************************************************)
\* a test that takes every ADT for a struct
is_struct_any_adt(def) == TRUE
\* AdtDef::is_struct
is_struct(def) == def.adt_kind = "Struct"

\* tcx.def_path_str(def.did())
def_path_str(did) == did.path

\* a kind that counts the fields from one
Struct_from_one(i) == [variant |-> "Struct", field |-> i + 1]
\* ty::adjustment::CustomCoerceUnsized::Struct(i)
Struct(i) == [variant |-> "Struct", field |-> i]

\* a closure that reports every difference of mutability
check_mutbl_strict(mt_a, mt_b, expected, target, span) ==
    IF mt_a.mutbl # mt_b.mutbl
    THEN << MismatchedTypes(span, expected, target) >>
    ELSE << >>

\* the check_mutbl closure: what it emits
check_mutbl(mt_a, mt_b, expected, target, span) ==
    IF << mt_a.mutbl, mt_b.mutbl >> = << "Not", "Mut" >>
    THEN << MismatchedTypes(span, expected, target) >>
    ELSE << >>

\* the closure without the PhantomData test
is_coerced_field_counting_phantom(f, substs_a, substs_b) ==
    LET ok == eq(field_ty(f, substs_a), field_ty(f, substs_b))
    IN  ~(ok.tag = "Ok" /\ ok.obligations = {})

\* the filter_map closure of diff_fields: Some((i, a, b)) for a field that is not
\* PhantomData and whose two types are not equal with no obligation left
is_coerced_field(f, substs_a, substs_b) ==
    LET ok == eq(field_ty(f, substs_a), field_ty(f, substs_b))
    IN  /\ ~is_phantom_data(f.ty)
        /\ ~(ok.tag = "Ok" /\ ok.obligations = {})

\* diff_fields with enumerate() after the filter: i counted over the changed fields
diff_fields_reindexed(fields, substs_a, substs_b) ==
    LET changed(i) == eq(field_ty(fields[i], substs_a), field_ty(fields[i], substs_b))
                          # RelateOk({})
                      /\ ~is_phantom_data(fields[i].ty)
        kept == SelectSeq([i \in 1..Len(fields) |-> i], changed)
    IN  [k \in 1..Len(kept) |->
            << k - 1, field_ty(fields[kept[k]], substs_a),
               field_ty(fields[kept[k]], substs_b) >>]

\* diff_fields: (i, a, b) of the changed fields, i counted from 0 over all fields
diff_fields(fields, substs_a, substs_b) ==
    LET changed(i) == is_coerced_field(fields[i], substs_a, substs_b)
        kept == SelectSeq([i \in 1..Len(fields) |-> i], changed)
    IN  [k \in 1..Len(kept) |->
            << kept[k] - 1, field_ty(fields[kept[k]], substs_a),
               field_ty(fields[kept[k]], substs_b) >>]

\* the list without its first item
coerced_fields_text_rest(fields, diff) ==
    join([k \in 1..Len(diff) |->
            format_coerced_field(fields[diff[k][1] + 1].name, diff[k][2], diff[k][3])], 2)

\* the coerced_fields argument of CoerceUnsizedTooManyCoercedFields
coerced_fields_text(fields, diff) ==
    join([k \in 1..Len(diff) |->
            format_coerced_field(fields[diff[k][1] + 1].name, diff[k][2], diff[k][3])], 1)

\* what the match ends with: an early return of err_info, or the obligation
\* (source, target, trait_def_id, kind) to register
ReturnErrInfo(emit) == [ret |-> "err_info", emit |-> emit, regions |-> {}]
Register(emit, regions, source, target, trait, kind) ==
    [ret |-> "obligation", emit |-> emit, regions |-> regions,
     obligation |-> [source |-> source, target |-> target, trait_def_id |-> trait,
                     kind |-> kind, errors |-> << >>, region_errors |-> {}]]

\* the (Adt, Adt) arm of the match, both structs
coerce_unsized_structs(impl_did, source, target) ==
    LET def_a == source.def
        def_b == target.def
        fields == def_a.fields
        diff == diff_fields(fields, source.substs, target.substs)
    IN  IF def_a.did # def_b.did
        THEN ReturnErrInfo(<< CoerceUnsizedInvalidDefinition(
                                 impl_span(impl_did), def_path_str(def_a.did),
                                 def_path_str(def_b.did)) >>)
        ELSE IF Len(diff) = 0
        THEN ReturnErrInfo(<< CoerceUnsizedNoCoercedField(impl_span(impl_did)) >>)
        ELSE IF Len(diff) > 1
        THEN ReturnErrInfo(<< CoerceUnsizedTooManyCoercedFields(
                                 of_trait_path_span(impl_did), Len(diff),
                                 coerced_fields_text(fields, diff)) >>)
        ELSE Register(<< >>, {}, diff[1][2], diff[1][3], "CoerceUnsized",
                      Some(Struct(diff[1][1])))

\* the obligation with the two regions the other way round
ref_region_obligation_swapped(r_a, r_b) == RegionObligation(r_a, r_b)
\* infcx.sub_regions(infer::RelateObjectBound(span), r_b, r_a): r_b <= r_a
ref_region_obligation(r_a, r_b) == RegionObligation(r_b, r_a)

\* match (source.kind(), target.kind())
coerce_unsized_match(impl_did, source, target) ==
    CASE source.kind = "Ref" /\ target.kind = "Ref" ->
            Register(check_mutbl(source, target, TyRef(target.region, "Not", target.ty),
                                 target, impl_span(impl_did)),
                     { ref_region_obligation(source.region, target.region) },
                     source.ty, target.ty, "Unsize", None)
      [] source.kind = "Ref" /\ target.kind = "RawPtr" ->
            Register(check_mutbl(source, target, TyRawPtr("Not", target.ty), target,
                                 impl_span(impl_did)),
                     {}, source.ty, target.ty, "Unsize", None)
      [] source.kind = "RawPtr" /\ target.kind = "RawPtr" ->
            Register(check_mutbl(source, target, TyRawPtr("Not", target.ty), target,
                                 impl_span(impl_did)),
                     {}, source.ty, target.ty, "Unsize", None)
      [] source.kind = "Adt" /\ target.kind = "Adt"
           /\ is_struct(source.def) /\ is_struct(target.def) ->
            coerce_unsized_structs(impl_did, source, target)
      [] OTHER -> ReturnErrInfo(<< CoerceUnsizedNotAStruct(impl_span(impl_did)) >>)

\* the answers traits::fully_solve_obligation can give for a predicate: its errors,
\* and the region obligations that solving it leaves in the inference context
ObligationAnswers(predicate, span) ==
    { [errors |-> es, region_obligations |-> ro] :
        es \in { << >>, << FulfillmentError(predicate, predicate, span) >> },
        ro \in { {}, { RegionObligation("'b", "'a") } } }

\* a missing lang item reported as an ordinary error: on to the next impl
fatal_recovering(name) ==
    /\ sink' = Append(sink, MissingLangItem(name, impl_span(idx)))
    /\ pc' = "check"
    /\ idx' = idx + 1
    /\ UNCHANGED << log, mark, trait_def_id, lang_items, impls, solver, err, errors, bounds,
                    fi, infcx, infcx_created, solver_calls, cx, coerce_unsized_info >>

\* a missing lang item: the session aborts
fatal(name) ==
    /\ sink' = Append(sink, MissingLangItem(name, impl_span(idx)))
    /\ pc' = "aborted"
    /\ UNCHANGED << log, mark, trait_def_id, lang_items, impls, idx, solver, err, errors, bounds, fi,
                    infcx, infcx_created, solver_calls, cx, coerce_unsized_info >>

\* coerce_unsized_info up to the end of the match
visit_implementation_of_coerce_unsized ==
    /\ pc = "coerce_unsized"
    /\ IF lang_item("CoerceUnsized") = None THEN fatal("CoerceUnsized")
       ELSE IF lang_item("Unsize") = None THEN fatal("Unsize")
       ELSE LET m == coerce_unsized_match(idx, impls[idx].self_ty, impls[idx].target)
            IN  /\ sink' = sink \o m.emit
                /\ infcx_created' = infcx_created + 1
                /\ IF m.ret = "err_info"
                   THEN /\ coerce_unsized_info' =
                              Append(coerce_unsized_info, [custom_kind |-> None])
                        /\ pc' = "check"
                        /\ idx' = idx + 1
                        /\ UNCHANGED << infcx, cx >>
                   ELSE /\ cx' = m.obligation
                        /\ infcx' = Append(infcx, [id |-> infcx_created + 1,
                                                   ignoring_regions |-> FALSE,
                                                   region_obligations |-> m.regions])
                        /\ pc' = "coerce_solve"
                        /\ UNCHANGED << idx, coerce_unsized_info >>
                /\ UNCHANGED << log, mark, trait_def_id, lang_items, impls, solver, err, errors,
                                bounds, fi, solver_calls >>

\* "Register an obligation for A: Trait<B>", solve it, report its errors
coerce_unsized_solve ==
    /\ pc = "coerce_solve"
    /\ \E answer \in ObligationAnswers(
                         predicate_for_trait_def(cx.trait_def_id, cx.source, cx.target),
                         impl_span(idx)) :
          /\ sink' = sink \o [i \in 1..Len(answer.errors) |->
                                 FulfillmentDiagnostic(answer.errors[i])]
          /\ infcx' = [infcx EXCEPT ![Len(infcx)].region_obligations =
                                        @ \cup answer.region_obligations]
          /\ cx' = [cx EXCEPT !.errors = answer.errors]
          /\ log' = [log EXCEPT ![Len(log)].answer = Some(answer)]
    /\ solver_calls' = solver_calls + 1
    /\ pc' = "coerce_regions"
    /\ UNCHANGED << mark, trait_def_id, lang_items, impls, idx, solver, err, errors,
                    bounds, fi, infcx_created, coerce_unsized_info >>

\* "Finally, resolve all regions", then CoerceUnsizedInfo { custom_kind: kind }
coerce_unsized_regions ==
    /\ pc = "coerce_regions"
    /\ LET reported == region_errors(impls[idx].outlives,
                                     infcx[Len(infcx)].region_obligations, impl_span(idx))
       IN  /\ sink' = sink \o SetToSeq(reported)
           /\ cx' = [cx EXCEPT !.region_errors = reported]
    /\ infcx' = exit_infcx
    /\ coerce_unsized_info' = Append(coerce_unsized_info, [custom_kind |-> cx.kind])
    /\ pc' = "check"
    /\ idx' = idx + 1
    /\ UNCHANGED << log, mark, trait_def_id, lang_items, impls, solver, err, errors, bounds, fi,
                    infcx_created, solver_calls >>

(***************************************************************************)
(* visit_implementation_of_dispatch_from_dyn                               *)
(***************************************************************************)
\* InvalidDispatchFromDynDeclarationType
TypesDifferTooMuch(source_path, target_path) ==
    [tag |-> "TypesDifferTooMuch", source_path |-> source_path, target_path |-> target_path]
InvalidRepr == [tag |-> "InvalidRepr"]
InvalidFields(field_name, ty_a) ==
    [tag |-> "InvalidFields", field_name |-> field_name, ty_a |-> ty_a]
NoCoercedFields == [tag |-> "NoCoercedFields"]
TooManyCoercedFields(coerced_fields_len, coerced_fields) ==
    [tag |-> "TooManyCoercedFields", coerced_fields_len |-> coerced_fields_len,
     coerced_fields |-> coerced_fields]
NotAStruct == [tag |-> "NotAStruct"]

\* impl SessionDiagnostic for InvalidDispatchFromDynDeclaration: the message of the
\* error type, the code E0378, the arguments and the notes
InvalidDispatchFromDynDeclaration(span, err_type) ==
    [slug |-> CASE err_type.tag = "TypesDifferTooMuch" ->
                      "typeck::invalid_dispatch_from_dyn_types_differ_too_much"
                [] err_type.tag = "InvalidRepr" ->
                      "typeck::invalid_dispatch_from_dyn_invalid_repr"
                [] err_type.tag = "InvalidFields" ->
                      "typeck::invalid_dispatch_from_dyn_invalid_fields"
                [] err_type.tag = "NoCoercedFields" ->
                      "typeck::invalid_dispatch_from_dyn_no_coerced_fields"
                [] err_type.tag = "TooManyCoercedFields" ->
                      "typeck::invalid_dispatch_from_dyn_too_many_coerced_fields"
                [] err_type.tag = "NotAStruct" ->
                      "typeck::invalid_dispatch_from_dyn_not_a_struct",
     code |-> "E0378",
     span |-> span,
     args |-> err_type,
     notes |-> CASE err_type.tag = "InvalidFields" -> << "typeck::note" >>
                 [] err_type.tag = "TooManyCoercedFields" ->
                       << "typeck::note", "typeck::fields_that_need_coercions_fields" >>
                 [] OTHER -> << >>]

\* ReprOptions::c, ReprOptions::packed
repr_c(def) == def.repr = "C"
\* a test that never sees #[repr(packed)]
repr_packed_unseen(def) == FALSE
repr_packed(def) == def.repr = "packed"

\* infcx.at(&cause, param_env).eq(r_a, r_b) on regions: relating two regions only
\* records a constraint
eq_regions(r_a, r_b) == RelateOk({})

\* a filter that ignores no field
is_ignored_zst_never(ty_a) == FALSE
\* "ignore ZST fields with alignment of 1 byte"
is_ignored_zst(ty_a) ==
    LET layout == layout_of(ty_a)
    IN  layout.tag = "Ok" /\ is_zst(layout) /\ layout.align = 1

\* a test that reports a field whose equality leaves obligations behind
is_invalid_field_residual(ty_a, ty_b) ==
    LET ok == eq(ty_a, ty_b)
    IN  ok.tag = "Ok" /\ ok.obligations # {}
\* the second test of the filter closure: eq(ty_a, ty_b) is Ok with no obligation
is_invalid_field(ty_a, ty_b) ==
    LET ok == eq(ty_a, ty_b)
    IN  ok.tag = "Ok" /\ ok.obligations = {}

RECURSIVE filter_coerced_fields_prepending(_, _, _, _, _, _)
\* a scan that puts each diagnostic before the ones of the fields already seen
filter_coerced_fields_prepending(fields, i, substs_a, substs_b, span, acc) ==
    IF i > Len(fields) THEN acc
    ELSE LET field == fields[i]
             ty_a == field_ty(field, substs_a)
             ty_b == field_ty(field, substs_b)
         IN  filter_coerced_fields_prepending(fields, i + 1, substs_a, substs_b, span,
                 IF is_ignored_zst(ty_a) THEN acc
                 ELSE IF is_invalid_field(ty_a, ty_b)
                 THEN [acc EXCEPT !.emit = << InvalidDispatchFromDynDeclaration(
                                                 span, InvalidFields(field.name,
                                                                     to_string(ty_a))) >>
                                              \o @]
                 ELSE [acc EXCEPT !.coerced_fields = Append(@, field)])

RECURSIVE filter_coerced_fields(_, _, _, _, _, _)
\* fields.iter().filter(..) from field i on: the fields kept, and the diagnostics the
\* closure emits on the way
filter_coerced_fields(fields, i, substs_a, substs_b, span, acc) ==
    IF i > Len(fields) THEN acc
    ELSE LET field == fields[i]
             ty_a == field_ty(field, substs_a)
             ty_b == field_ty(field, substs_b)
         IN  filter_coerced_fields(fields, i + 1, substs_a, substs_b, span,
                 IF is_ignored_zst(ty_a) THEN acc
                 ELSE IF is_invalid_field(ty_a, ty_b)
                 THEN [acc EXCEPT !.emit = Append(@,
                          InvalidDispatchFromDynDeclaration(
                              span, InvalidFields(field.name, to_string(ty_a))))]
                 ELSE [acc EXCEPT !.coerced_fields = Append(@, field)])

Return(emit) == [ret |-> "return", emit |-> emit]
\* an arm for one coerced field that ends the check without an obligation
Solve_nothing(emit, coerced_fields) == [ret |-> "return", emit |-> emit]
Solve(emit, coerced_fields) ==
    [ret |-> "obligation", emit |-> emit, coerced_fields |-> coerced_fields]

\* the (Adt, Adt) arm of the match, both structs
dispatch_from_dyn_structs(impl_did, source, target) ==
    LET span == impl_span(impl_did)
        def_a == source.def
        def_b == target.def
        repr == IF repr_c(def_a) \/ repr_packed(def_a)
                THEN << InvalidDispatchFromDynDeclaration(span, InvalidRepr) >>
                ELSE << >>
        scan == filter_coerced_fields(def_a.fields, 1, source.substs, target.substs, span,
                                      [coerced_fields |-> << >>, emit |-> << >>])
        coerced_fields == scan.coerced_fields
    IN  IF def_a.did # def_b.did
        THEN Return(<< InvalidDispatchFromDynDeclaration(
                          span, TypesDifferTooMuch(def_path_str(def_a.did),
                                                   def_path_str(def_b.did))) >>)
        ELSE IF Len(coerced_fields) = 0
        THEN Return(repr \o scan.emit
                      \o << InvalidDispatchFromDynDeclaration(span, NoCoercedFields) >>)
        ELSE IF Len(coerced_fields) > 1
        THEN Return(repr \o scan.emit
                      \o << InvalidDispatchFromDynDeclaration(
                               span,
                               TooManyCoercedFields(
                                   Len(coerced_fields),
                                   join([k \in 1..Len(coerced_fields) |->
                                           format_coerced_field(
                                               coerced_fields[k].name,
                                               field_ty(coerced_fields[k], source.substs),
                                               field_ty(coerced_fields[k], target.substs))],
                                        1))) >>)
        ELSE Solve(repr \o scan.emit, coerced_fields)

\* a mutability test that lets a mutable pointer stand for an immutable one
mutbl_coercible(mutbl_a, mutbl_b) == mutbl_a = mutbl_b \/ mutbl_a = "Mut"
\* the guard of the two pointer arms: mutbl_a == *mutbl_b
mutbl_eq(mutbl_a, mutbl_b) == mutbl_a = mutbl_b

\* match (source.kind(), target.kind())
dispatch_from_dyn_match(impl_did, source, target) ==
    CASE source.kind = "Ref" /\ target.kind = "Ref"
           /\ eq_regions(source.region, target.region).tag = "Ok"
           /\ mutbl_eq(source.mutbl, target.mutbl) -> Return(<< >>)
      [] source.kind = "RawPtr" /\ target.kind = "RawPtr"
           /\ mutbl_eq(source.mutbl, target.mutbl) -> Return(<< >>)
      [] source.kind = "Adt" /\ target.kind = "Adt"
           /\ is_struct(source.def) /\ is_struct(target.def) ->
            dispatch_from_dyn_structs(impl_did, source, target)
      [] OTHER -> Return(<< InvalidDispatchFromDynDeclaration(impl_span(impl_did),
                                                              NotAStruct) >>)

\* the function up to the end of the field count
visit_implementation_of_dispatch_from_dyn ==
    /\ pc = "dispatch_from_dyn"
    /\ IF lang_item("DispatchFromDyn") = None THEN fatal("DispatchFromDyn")
       ELSE LET m == dispatch_from_dyn_match(idx, impls[idx].self_ty, impls[idx].target)
            IN  /\ sink' = sink \o m.emit
                /\ infcx_created' = infcx_created + 1
                /\ IF m.ret = "return"
                   THEN /\ pc' = "check"
                        /\ idx' = idx + 1
                        /\ UNCHANGED << infcx, cx >>
                   ELSE /\ cx' = [coerced_fields |-> m.coerced_fields, predicate |-> None,
                                   errors |-> << >>, region_errors |-> {}]
                        /\ infcx' = enter_infcx(FALSE)
                        /\ pc' = "dispatch_solve"
                        /\ UNCHANGED idx
                /\ UNCHANGED << log, mark, trait_def_id, lang_items, impls, solver, err, errors,
                                bounds, fi, solver_calls, coerce_unsized_info >>

\* traits::fully_solve_obligations on the one coerced field, and the report
dispatch_from_dyn_solve ==
    /\ pc = "dispatch_solve"
    /\ LET field == cx.coerced_fields[1]
           predicate == predicate_for_trait_def(
                            "DispatchFromDyn",
                            field_ty(field, impls[idx].self_ty.substs),
                            field_ty(field, impls[idx].target.substs))
       IN  \E answer \in ObligationAnswers(predicate, impl_span(idx)) :
              /\ sink' = sink \o [i \in 1..Len(answer.errors) |->
                                     FulfillmentDiagnostic(answer.errors[i])]
              /\ infcx' = [infcx EXCEPT ![Len(infcx)].region_obligations =
                                            @ \cup answer.region_obligations]
              /\ cx' = [cx EXCEPT !.predicate = predicate, !.errors = answer.errors]
              /\ log' = [log EXCEPT ![Len(log)].answer = Some(answer)]
    /\ solver_calls' = solver_calls + 1
    /\ pc' = "dispatch_regions"
    /\ UNCHANGED << mark, trait_def_id, lang_items, impls, idx, solver, err, errors,
                    bounds, fi, infcx_created, coerce_unsized_info >>

\* "Finally, resolve all regions."
dispatch_from_dyn_regions ==
    /\ pc = "dispatch_regions"
    /\ LET reported == region_errors(impls[idx].outlives,
                                     infcx[Len(infcx)].region_obligations, impl_span(idx))
       IN  /\ sink' = sink \o SetToSeq(reported)
           /\ cx' = [cx EXCEPT !.region_errors = reported]
    /\ infcx' = exit_infcx
    /\ pc' = "check"
    /\ idx' = idx + 1
    /\ UNCHANGED << log, mark, trait_def_id, lang_items, impls, solver, err, errors, bounds, fi,
                    infcx_created, solver_calls, coerce_unsized_info >>

(***************************************************************************)
(* The sessions the model runs: the trait, the lang-item table, the impls  *)
(* registered for the trait, the solver's answers.                         *)
(***************************************************************************)
TyT == TyParam(0, "T")
TyU == TyParam(1, "U")
TyI32 == TyPrim("i32")
TyString == TyPrim("String")
TyUnit == TyPrim("()")

\* field i of a struct (counted from 1) is named f0, f1, ..
FieldName(i) == "f" \o ToString(i - 1)
StructFields(tys) == [i \in 1..Len(tys) |-> FieldDef(FieldName(i), tys[i])]
LocalStruct(tys) == AdtDef("local", "S", "Struct", "Rust", StructFields(tys))

\* ---- Drop ----
DropFieldTys == { TyI32, TyT }
DropSelfTys ==
    { TyAdt(AdtDef(krate, "S", adt_kind, "Rust", StructFields(tys)), << TyT >>) :
        krate \in { "local", "std" }, adt_kind \in { "Struct", "Enum", "Union" },
        tys \in SeqsUpTo(DropFieldTys, MaxFields) }
    \cup { TyError, TyI32, TyRef("'a", "Not", TyI32), TyRawPtr("Mut", TyI32) }
DropImpls == { [self_ty |-> ty] : ty \in DropSelfTys }

\* ---- Copy ----
\* types a field can have that do not implement Copy
TyQ == TyAdt(AdtDef("local", "Q", "Struct", "Rust", StructFields(<< TyT, TyU >>)),
             << TyT, TyU >>)
TyW == TyAdt(AdtDef("local", "W", "Struct", "Rust", StructFields(<< TyT >>)),
             << TyString >>)
TyIter == TyAdt(AdtDef("local", "I", "Struct", "Rust", StructFields(<< TyT >>)), << TyT >>)
FieldTys == { TyT, TyQ, TyW, TyIter }

\* the predicates the solver can report unmet for ty: Copy
UnmetFor(ty) ==
    CASE ty = TyT -> { TraitPredicate(TyT, "Copy") }
      [] ty = TyQ -> { TraitPredicate(TyT, "Copy"), TraitPredicate(TyU, "Copy") }
      [] ty = TyW -> { TraitPredicate(TyString, "Copy"), TraitPredicate(TyW, "Copy") }
      [] ty = TyIter -> { ProjectionPredicate(TyT, "Iterator", "Item", TyPrim("u8")) }

\* the solver reports each unmet predicate once, in any order
SolverAnswers(ty) == { a \in SeqsUpTo(UnmetFor(ty), MaxErrors) : IsInjective(a) }

\* the solver's answers for the types in tys (nothing is asked about the others)
Solvers(tys) ==
    LET used == { tys[i] : i \in 1..Len(tys) }
        For(ty) == IF ty \in used THEN SolverAnswers(ty) ELSE { << >> }
    IN  { (TyT :> t) @@ (TyQ :> q) @@ (TyW :> w) @@ (TyIter :> i) :
            t \in For(TyT), q \in For(TyQ), w \in For(TyW), i \in For(TyIter) }

NoSolver == [ty \in FieldTys |-> << >>]
SomeSolver ==
    (TyT :> << TraitPredicate(TyT, "Copy") >>)
    @@ (TyQ :> << TraitPredicate(TyU, "Copy"), TraitPredicate(TyT, "Copy") >>)
    @@ (TyW :> << TraitPredicate(TyString, "Copy") >>)
    @@ (TyIter :> << ProjectionPredicate(TyT, "Iterator", "Item", TyPrim("u8")) >>)

\* struct S<T, U> with fields of the types tys and a last field of type i32
CopySelfTy(tys) == TyAdt(LocalStruct(tys \o << TyI32 >>), << TyT, TyU >>)

\* Err(InfrigingFields(..)): the fields of the types tys, with their types
Infringing(tys) ==
    [tag |-> "InfrigingFields",
     fields |-> [k \in 1..Len(tys) |->
                    [field |-> LocalStruct(tys \o << TyI32 >>).fields[k], ty |-> tys[k]]]]

CopyImpl(self_ty, result) == [self_ty |-> self_ty, can_type_implement_copy |-> result]

CopyImplsOther ==
    { CopyImpl(CopySelfTy(tys), [tag |-> tag]) :
        tys \in SeqsUpTo(FieldTys, MaxFields), tag \in { "Ok", "HasDestructor" } }
    \cup { CopyImpl(ty, [tag |-> "NotAnAdt"]) :
             ty \in { TyRef("'a", "Mut", TyT), TyRawPtr("Mut", TyI32) } }

\* ---- CoerceUnsized and DispatchFromDyn ----
TyArray3 == TyArray("3")
TyArrayN == TyArray("N")

\* declared types of the fields of struct S<T, U>
DeclTys == { TyT, TyRawPtr("Mut", TyU), TyPhantomData(TyU), TyI32, TyUnit }

\* the two arguments given to a parameter: the same, different, equal up to a constant
ArgPairs == { << TyArray3, TyArray3 >>, << TyArray3, TySlice >>, << TyArrayN, TyArray3 >> }

Conversion(source, target, env) == [self_ty |-> source, target |-> target, outlives |-> env]

\* S<Ta, Ua> to S<Tb, Ub>
StructImpls(reprs) ==
    { Conversion(TyAdt(AdtDef("local", "S", "Struct", repr, StructFields(tys)),
                       << t[1], u[1] >>),
                 TyAdt(AdtDef("local", "S", "Struct", repr, StructFields(tys)),
                       << t[2], u[2] >>),
                 {}) :
        tys \in SeqsUpTo(DeclTys, MaxFields), repr \in reprs,
        t \in ArgPairs, u \in ArgPairs }

Regions == { "'a", "'b" }
Mutabilities == { "Not", "Mut" }
PointerTys(pointee) ==
    { TyRef(r, m, pointee) : r \in Regions, m \in Mutabilities }
    \cup { TyRawPtr(m, pointee) : m \in Mutabilities }

\* pointer to [i32; 3] to pointer to [i32], with or without the bound 'a: 'b
PointerImpls ==
    { Conversion(source, target, env) :
        source \in PointerTys(TyArray3), target \in PointerTys(TySlice),
        env \in { {}, { << "'a", "'b" >> } } }

\* other shapes: the structs S and R, an enum, a union, a primitive, pointers
OtherTys(repr) ==
    { TyAdt(AdtDef("local", d[1], d[2], repr, StructFields(<< TyT >>)), << TyArray3 >>) :
        d \in { << "S", "Struct" >>, << "R", "Struct" >>, << "E", "Enum" >>,
                << "N", "Union" >> } }
    \cup { TyI32, TyRawPtr("Mut", TyArray3), TyRef("'a", "Not", TyArray3) }
OtherImpls(reprs) ==
    UNION { { Conversion(source, target, {}) :
                source \in OtherTys(repr), target \in OtherTys(repr) } : repr \in reprs }

CoerceUnsizedImpls ==
    StructImpls({ "Rust" }) \cup PointerImpls \cup OtherImpls({ "Rust" })
Reprs == { "Rust", "C", "packed" }
DispatchFromDynImpls == StructImpls(Reprs) \cup PointerImpls \cup OtherImpls(Reprs)

Session(trait, items, impl, answers) ==
    [trait |-> trait, lang_items |-> items, impls |-> << impl >>, solver |-> answers]

\* check_trait for a lang item that is defined
Sessions ==
    { Session("Drop", AllLangItems, impl, NoSolver) : impl \in DropImpls }
    \cup UNION { { Session("Copy", AllLangItems,
                              CopyImpl(CopySelfTy(tys), Infringing(tys)), answers) :
                        answers \in Solvers(tys) } :
                    tys \in NonEmptySeqsUpTo(FieldTys, MaxFields) }
    \cup { Session("Copy", AllLangItems, impl, SomeSolver) : impl \in CopyImplsOther }
    \cup { Session("CoerceUnsized", AllLangItems, impl, NoSolver) :
             impl \in CoerceUnsizedImpls }
    \cup { Session("DispatchFromDyn", AllLangItems, impl, NoSolver) :
             impl \in DispatchFromDynImpls }

\* check_trait for a trait that is not a lang item of the table, and CoerceUnsized
\* without the Unsize lang item
BasicImpls ==
    { [self_ty |-> TyI32], CopyImpl(TyRef("'a", "Mut", TyT), [tag |-> "NotAnAdt"]) }
    \cup PointerImpls
OddSessions ==
    { Session(trait, AllLangItems \ { trait }, impl, NoSolver) :
        trait \in { "Drop", "Copy", "CoerceUnsized", "DispatchFromDyn" },
        impl \in BasicImpls }
    \cup { Session("Clone", AllLangItems, impl, NoSolver) : impl \in BasicImpls }
    \cup { Session("CoerceUnsized", AllLangItems \ { "Unsize" }, impl, NoSolver) :
             impl \in PointerImpls }

Init ==
    \E s \in Sessions \cup OddSessions :
        /\ trait_def_id = s.trait
        /\ lang_items = s.lang_items
        /\ impls = s.impls
        /\ solver = s.solver
        /\ idx = 1
        /\ pc = "check"
        /\ sink = << >>
        /\ mark = [sink |-> 0, infcx_created |-> 0, solver_calls |-> 0]
        /\ log = << >>
        /\ err = None
        /\ errors = << >>
        /\ bounds = << >>
        /\ fi = 0
        /\ infcx = << >>
        /\ infcx_created = 0
        /\ solver_calls = 0
        /\ cx = None
        /\ coerce_unsized_info = << >>

Next ==
    \/ check_visit
    \/ check_return
    \/ visit_implementation_of_drop
    \/ visit_implementation_of_copy
    \/ copy_field_enter
    \/ copy_field_solve
    \/ copy_field_exit
    \/ copy_emit
    \/ visit_implementation_of_coerce_unsized
    \/ coerce_unsized_solve
    \/ coerce_unsized_regions
    \/ visit_implementation_of_dispatch_from_dyn
    \/ dispatch_from_dyn_solve
    \/ dispatch_from_dyn_regions

Spec == Init /\ [][Next]_vars

(***************************************************************************)
(* Sessions with several impls of the trait: the loop of Checker::check.   *)
(***************************************************************************)
\* a few impls of each trait
RegisteredImpls(trait) ==
    CASE trait = "Copy" ->
            { CopyImpl(CopySelfTy(<< >>), [tag |-> "Ok"]),
              CopyImpl(CopySelfTy(<< TyT >>), Infringing(<< TyT >>)),
              CopyImpl(CopySelfTy(<< TyQ >>), Infringing(<< TyQ >>)) }
      [] trait \in { "CoerceUnsized", "DispatchFromDyn" } ->
            { Conversion(TyAdt(LocalStruct(<< TyT >>), << TyArray3 >>),
                         TyAdt(LocalStruct(<< TyT >>), << TySlice >>), {}),
              Conversion(TyI32, TyI32, {}) }
      [] OTHER ->
            { [self_ty |-> TyAdt(LocalStruct(<< TyT >>), << TyT >>)], [self_ty |-> TyI32] }

\* check_trait for any trait, with all lang items, without Unsize, without its own
RegistrySessions ==
    UNION { { [trait |-> trait, lang_items |-> AllLangItems \ missing,
               impls |-> registered, solver |-> SomeSolver] :
                registered \in SeqsUpTo(RegisteredImpls(trait), MaxImpls),
                missing \in { {}, { "Unsize" }, { trait } } } :
            trait \in { "Drop", "Copy", "CoerceUnsized", "DispatchFromDyn", "Clone" } }

InitRegistry ==
    \E s \in RegistrySessions :
        /\ trait_def_id = s.trait
        /\ lang_items = s.lang_items
        /\ impls = s.impls
        /\ solver = s.solver
        /\ idx = 1
        /\ pc = "check"
        /\ sink = << >>
        /\ mark = [sink |-> 0, infcx_created |-> 0, solver_calls |-> 0]
        /\ log = << >>
        /\ err = None
        /\ errors = << >>
        /\ bounds = << >>
        /\ fi = 0
        /\ infcx = << >>
        /\ infcx_created = 0
        /\ solver_calls = 0
        /\ cx = None
        /\ coerce_unsized_info = << >>

SpecRegistry == InitRegistry /\ [][Next]_vars

\* the pass is sequential code: a step that can be taken is taken
FairSpecRegistry == SpecRegistry /\ WF_vars(Next)

(***************************************************************************)
(* Properties.  They are stated about the impl whose visitor has just      *)
(* returned and about what the session was handed during that call.        *)
(***************************************************************************)
\* the visitor of the impl before idx has returned
Returned == pc \in { "check", "done" } /\ idx > 1
\* the impl it was called for
checked == impls[idx - 1]
\* the diagnostics emitted during the call, in order
emitted == SubSeq(sink, mark.sink + 1, Len(sink))
\* inference contexts entered and solver calls made during the call
scopes_opened == infcx_created - mark.infcx_created
solver_called == solver_calls - mark.solver_calls

HasCode(d, code) == "code" \in DOMAIN d /\ d.code = code
HasErrType(d, tag) == "args" \in DOMAIN d /\ d.args.tag = tag

\* C1: the Drop check emits nothing for a self type that is an ADT of the local
\* crate or the error type, and exactly one DropImplOnWrongItem (E0120) for every
\* other self type; the fields of the ADT play no part.
C1_DropOutcome ==
    (Returned /\ visitor = "drop") =>
        LET ty == checked.self_ty
        IN  IF (ty.kind = "Adt" /\ ty.def.did.krate = "local") \/ ty.kind = "Error"
            THEN emitted = << >>
            ELSE /\ Len(emitted) = 1
                 /\ emitted[1].slug = "typeck::drop_impl_on_wrong_item"
                 /\ HasCode(emitted[1], "E0120")

\* a foreign ADT with fields has been rejected
C1_Witness ==
    /\ Returned /\ visitor = "drop"
    /\ checked.self_ty.kind = "Adt"
    /\ checked.self_ty.def.did.krate = "std"
    /\ Len(checked.self_ty.def.fields) = 2
    /\ Len(emitted) = 1

verdict == checked.can_type_implement_copy.tag

\* C2: the Copy check maps the verdict of can_type_implement_copy to its outcome: Ok
\* emits nothing, NotAnAdt exactly one E0206, HasDestructor exactly one E0184 with no
\* inference context entered and no solver call, InfrigingFields exactly one E0204;
\* never more than one diagnostic for an impl.
C2_CopyOutcome ==
    (Returned /\ visitor = "copy") =>
        /\ Len(emitted) <= 1
        /\ verdict = "Ok" => emitted = << >>
        /\ verdict = "NotAnAdt" => Len(emitted) = 1 /\ HasCode(emitted[1], "E0206")
        /\ verdict = "HasDestructor" =>
              /\ Len(emitted) = 1 /\ HasCode(emitted[1], "E0184")
              /\ scopes_opened = 0
              /\ solver_called = 0
        /\ verdict = "InfrigingFields" => Len(emitted) = 1 /\ HasCode(emitted[1], "E0204")

\* a type with a destructor and two fields that are not Copy has been rejected
C2_Witness ==
    /\ Returned /\ visitor = "copy"
    /\ verdict = "HasDestructor"
    /\ Len(checked.self_ty.def.fields) = 3
    /\ Len(emitted) = 1 /\ HasCode(emitted[1], "E0184")

\* the infringing fields the oracle returned for the impl
returned_fields == checked.can_type_implement_copy.fields

\* C3: for the InfrigingFields verdict nothing reaches the session while the fields
\* are being processed; the one diagnostic is emitted after every field has been
\* solved, and it carries one label per infringing field, in order, and none for a
\* field that is not infringing.
C3_CopyInfringingOnce ==
    visitor = "copy" =>
        /\ pc \in { "copy_field", "copy_solve", "copy_exit" } => Len(sink) = mark.sink
        /\ (Returned /\ verdict = "InfrigingFields") =>
              LET labels == emitted[1].labels
                  infringing == { returned_fields[k].field : k \in 1..Len(returned_fields) }
                  declared == { checked.self_ty.def.fields[k] :
                                  k \in 1..Len(checked.self_ty.def.fields) }
              IN  /\ Len(emitted) = 1
                  /\ solver_called = Len(returned_fields)
                  /\ [k \in 1..Len(labels) |-> labels[k].span]
                        = [k \in 1..Len(returned_fields) |->
                              field_span(returned_fields[k].field)]
                  /\ \A f \in declared \ infringing :
                        \A k \in 1..Len(labels) : labels[k].span # field_span(f)

\* two infringing fields, two labels in the one diagnostic
C3_Witness ==
    /\ Returned /\ visitor = "copy"
    /\ verdict = "InfrigingFields"
    /\ Len(returned_fields) = 2
    /\ Len(emitted) = 1
    /\ Len(emitted[1].labels) = 2

\* the subject of a predicate: the self type of a trait predicate, the projection
\* of a projection predicate
Subject(p) == IF p.kind = "Trait" THEN p.self_ty ELSE p.projection_ty
IsBareParam(p) == Subject(p).kind = "Param"

RECURSIVE UnmetOfFields(_, _)
\* the unmet predicates the solver returns for the fields from k on, in order
UnmetOfFields(fields, k) ==
    IF k > Len(fields) THEN << >>
    ELSE solver[fields[k].ty] \o UnmetOfFields(fields, k + 1)

\* the (parameter, trait) pairs of the suggestion
suggested_pairs(d) == [k \in 1..Len(d.suggest) |-> << d.suggest[k][1], d.suggest[k][2] >>]

\* C4: the suggestion of the E0204 diagnostic holds a (parameter, trait) pair exactly
\* for the unmet predicates whose subject is a bare type parameter, and none for a
\* predicate on any other type; a field of type T with T: Copy unmet gives T: Copy.
C4_BoundSuggestion ==
    (Returned /\ visitor = "copy" /\ verdict = "InfrigingFields") =>
        LET unmet == SelectSeq(UnmetOfFields(returned_fields, 1), IsBareParam)
        IN  /\ Len(emitted) = 1
            /\ suggested_pairs(emitted[1])
                  = [k \in 1..Len(unmet) |-> << Subject(unmet[k]).name, unmet[k].trait >>]

\* the one infringing field has type T, T: Copy is unmet, T: Copy is suggested
C4_Witness ==
    /\ Returned /\ visitor = "copy" /\ verdict = "InfrigingFields"
    /\ Len(returned_fields) = 1
    /\ returned_fields[1].ty = TyT
    /\ solver[TyT] = << TraitPredicate(TyT, "Copy") >>
    /\ Len(emitted) = 1
    /\ suggested_pairs(emitted[1]) = << << "T", "Copy" >> >>

\* the keys a note can have, in the order of their bytes: I < Q < W, T < U
NoteKeysInOrder ==
    << << "I<T>", "<T as Iterator>::Item == u8" >>,
       << "Q<T, U>", "T: Copy" >>,
       << "Q<T, U>", "U: Copy" >>,
       << "W<String>", "String: Copy" >> >>
NoteRank(note) ==
    CHOOSE r \in 1..Len(NoteKeysInOrder) :
        NoteKeysInOrder[r] = << note.ty, note.error_predicate >>

\* C5: the notes of the E0204 diagnostic come in the order of their (type text,
\* predicate text) key, one per key, and the keys are those of the unmet predicates
\* that are not the root obligation: the order in which the solver returned them
\* plays no part.
C5_NotesInKeyOrder ==
    (Returned /\ visitor = "copy" /\ verdict = "InfrigingFields") =>
        LET notes == emitted[1].notes
        IN  /\ Len(emitted) = 1
            /\ \A i, j \in 1..Len(notes) : i < j => NoteRank(notes[i]) < NoteRank(notes[j])
            /\ { << notes[i].ty, notes[i].error_predicate >> : i \in 1..Len(notes) }
                  = UNION { { << to_string(returned_fields[k].ty),
                                 predicate_to_string(solver[returned_fields[k].ty][e]) >> :
                                e \in { e \in 1..Len(solver[returned_fields[k].ty]) :
                                          solver[returned_fields[k].ty][e]
                                            # TraitPredicate(returned_fields[k].ty, "Copy") } } :
                            k \in 1..Len(returned_fields) }

\* the solver returned U: Copy before T: Copy; the notes are T: Copy, then U: Copy
C5_Witness ==
    /\ Returned /\ visitor = "copy" /\ verdict = "InfrigingFields"
    /\ \E k \in 1..Len(returned_fields) : returned_fields[k].ty = TyQ
    /\ solver[TyQ] = << TraitPredicate(TyU, "Copy"), TraitPredicate(TyT, "Copy") >>
    /\ Len(emitted) = 1
    /\ Len(emitted[1].notes) = 2
    /\ emitted[1].notes[1].error_predicate = "T: Copy"
    /\ emitted[1].notes[2].error_predicate = "U: Copy"

\* the CoerceUnsizedInfo returned by the call
returned_kind == coerce_unsized_info[Len(coerce_unsized_info)].custom_kind

\* the three pointer arms of the match of coerce_unsized_info
PointerShape(impl) ==
    \/ impl.self_ty.kind = "Ref" /\ impl.target.kind \in { "Ref", "RawPtr" }
    \/ impl.self_ty.kind = "RawPtr" /\ impl.target.kind = "RawPtr"
NotToMut(impl) == impl.self_ty.mutbl = "Not" /\ impl.target.mutbl = "Mut"
IsMutabilityMismatch(d) == HasCode(d, "E0308") /\ d.terr = "Mutability"

\* C6 as stated: for the pointer shapes, an immutable source with a mutable target
\* gets a mutability mismatch, every other pair whose regions are compatible is
\* accepted with no diagnostic, and the kind returned is None.
C6_PointerShapesAsStated ==
    (Returned /\ visitor = "coerce_unsized" /\ PointerShape(checked)) =>
        /\ NotToMut(checked) => \E i \in 1..Len(emitted) : IsMutabilityMismatch(emitted[i])
        /\ (~NotToMut(checked) /\ cx.region_errors = {}) => emitted = << >>
        /\ returned_kind = None

\* C6: for the pointer shapes, an immutable source with a mutable target gets a
\* mutability mismatch first; the obligation registered is pointee: Unsize<pointee>
\* (no field is looked at); every other pair is accepted with no diagnostic exactly
\* when that obligation and the region obligations are discharged; the kind returned
\* is None.
C6_PointerShapes ==
    (Returned /\ visitor = "coerce_unsized" /\ PointerShape(checked)) =>
        /\ NotToMut(checked) => Len(emitted) >= 1 /\ IsMutabilityMismatch(emitted[1])
        /\ solver_called = 1
        /\ cx.trait_def_id = "Unsize"
        /\ cx.source = checked.self_ty.ty
        /\ cx.target = checked.target.ty
        /\ ~NotToMut(checked) =>
              (emitted = << >> <=> (cx.errors = << >> /\ cx.region_errors = {}))
        /\ returned_kind = None

\* a mutable reference widened to a shared one, obligation and regions discharged
C6_Witness ==
    /\ Returned /\ visitor = "coerce_unsized"
    /\ checked.self_ty.kind = "Ref" /\ checked.target.kind = "Ref"
    /\ checked.self_ty.mutbl = "Mut" /\ checked.target.mutbl = "Not"
    /\ cx.errors = << >> /\ cx.region_errors = {}
    /\ emitted = << >>
    /\ returned_kind = None

\* struct to struct, the same definition
SameStructs(impl) ==
    /\ impl.self_ty.kind = "Adt" /\ impl.target.kind = "Adt"
    /\ impl.self_ty.def.adt_kind = "Struct" /\ impl.target.def.adt_kind = "Struct"
    /\ impl.self_ty.def.did = impl.target.def.did

\* the two instantiated types of declared field k
TyA(impl, k) == field_ty(impl.self_ty.def.fields[k], impl.self_ty.substs)
TyB(impl, k) == field_ty(impl.self_ty.def.fields[k], impl.target.substs)
IsPhantom(impl, k) == is_phantom_data(impl.self_ty.def.fields[k].ty)
TypeEqual(a, b) == eq(a, b) = RelateOk({})

\* positions (from 1, over all declared fields) of the diff fields: not PhantomData,
\* and not type-equal with nothing left over
DiffPositions(impl) ==
    { k \in 1..Len(impl.self_ty.def.fields) :
        ~IsPhantom(impl, k) /\ ~TypeEqual(TyA(impl, k), TyB(impl, k)) }

\* C7: struct to struct with the same definition and exactly one diff field: the
\* obligation registered is TyA: CoerceUnsized<TyB> for the two instantiated types of
\* that field, and when it and the region obligations are discharged nothing is
\* emitted and the kind returned is Struct(i), i the position of the field counted
\* from 0 over all declared fields.
C7_OneDiffField ==
    (Returned /\ visitor = "coerce_unsized" /\ SameStructs(checked)
       /\ Cardinality(DiffPositions(checked)) = 1) =>
        LET k == CHOOSE k \in DiffPositions(checked) : TRUE
        IN  /\ solver_called = 1
            /\ cx.trait_def_id = "CoerceUnsized"
            /\ cx.source = TyA(checked, k)
            /\ cx.target = TyB(checked, k)
            /\ (cx.errors = << >> /\ cx.region_errors = {}) =>
                  /\ emitted = << >>
                  /\ returned_kind = Some([variant |-> "Struct", field |-> k - 1])

\* the second field is the diff field, after a PhantomData field: index 1
C7_Witness ==
    /\ Returned /\ visitor = "coerce_unsized" /\ SameStructs(checked)
    /\ DiffPositions(checked) = { 2 }
    /\ IsPhantom(checked, 1)
    /\ emitted = << >>
    /\ returned_kind = Some([variant |-> "Struct", field |-> 1])

RECURSIVE ListedFields(_, _)
\* the diff fields from declared position k on: name (TyA -> TyB), separated by ", "
ListedFields(impl, k) ==
    IF k > Len(impl.self_ty.def.fields) THEN ""
    ELSE IF k \notin DiffPositions(impl) THEN ListedFields(impl, k + 1)
    ELSE impl.self_ty.def.fields[k].name
            \o " (" \o to_string(TyA(impl, k)) \o " -> " \o to_string(TyB(impl, k)) \o ")"
            \o (IF \E j \in DiffPositions(impl) : j > k THEN ", " ELSE "")
            \o ListedFields(impl, k + 1)

\* C8: struct to struct with two or more diff fields: exactly one
\* CoerceUnsizedTooManyCoercedFields (E0375) is emitted, its list names every diff
\* field once, in declaration order, with both instantiated types, its count is the
\* number of diff fields; the solver is not called and the kind returned is None.
C8_TooManyDiffFields ==
    (Returned /\ visitor = "coerce_unsized" /\ SameStructs(checked)
       /\ Cardinality(DiffPositions(checked)) >= 2) =>
        /\ Len(emitted) = 1
        /\ HasCode(emitted[1], "E0375")
        /\ emitted[1].coerced_fields_len = Cardinality(DiffPositions(checked))
        /\ emitted[1].coerced_fields = ListedFields(checked, 1)
        /\ solver_called = 0
        /\ returned_kind = None

\* two diff fields, both listed
C8_Witness ==
    /\ Returned /\ visitor = "coerce_unsized" /\ SameStructs(checked)
    /\ DiffPositions(checked) = { 1, 2 }
    /\ Len(emitted) = 1
    /\ emitted[1].coerced_fields_len = 2
    /\ emitted[1].coerced_fields
          = "f0 ([i32; 3] -> [i32]), f1 (*mut [i32; 3] -> *mut [i32])"

\* a PhantomData field changes type, every other field is type-equal
OnlyPhantomChanges(impl) ==
    /\ \E k \in 1..Len(impl.self_ty.def.fields) :
          IsPhantom(impl, k) /\ TyA(impl, k) # TyB(impl, k)
    /\ \A k \in 1..Len(impl.self_ty.def.fields) :
          ~IsPhantom(impl, k) => TypeEqual(TyA(impl, k), TyB(impl, k))

\* C9: struct to struct where only a PhantomData field changes type and every other
\* field is type-equal with nothing left over: exactly one CoerceUnsizedNoCoercedField
\* (E0374) is emitted, the solver is not called and the kind returned is None.
C9_OnlyPhantomChanges ==
    (Returned /\ visitor = "coerce_unsized" /\ SameStructs(checked)
       /\ OnlyPhantomChanges(checked)) =>
        /\ Len(emitted) = 1
        /\ HasCode(emitted[1], "E0374")
        /\ solver_called = 0
        /\ returned_kind = None

\* a struct with a changing PhantomData field and an unchanged field is rejected
C9_Witness ==
    /\ Returned /\ visitor = "coerce_unsized" /\ SameStructs(checked)
    /\ OnlyPhantomChanges(checked)
    /\ Len(checked.self_ty.def.fields) = 2
    /\ \E k \in 1..2 : ~IsPhantom(checked, k)
    /\ Len(emitted) = 1 /\ HasCode(emitted[1], "E0374")

InvalidReprs == { i \in 1..Len(emitted) : HasErrType(emitted[i], "InvalidRepr") }
ReprCOrPacked(ty) == ty.kind = "Adt" /\ ty.def.repr \in { "C", "packed" }

\* C10 as stated: whenever the self type is an ADT declared repr(C) or repr(packed),
\* an InvalidRepr diagnostic is emitted, whatever the target type.
C10_InvalidReprAsStated ==
    (Returned /\ visitor = "dispatch_from_dyn" /\ ReprCOrPacked(checked.self_ty)) =>
        InvalidReprs # {}

\* C10: struct to struct with the same definition, declared repr(C) or
\* repr(packed): exactly one InvalidRepr diagnostic is emitted, before any other,
\* whatever the fields give; for any other pair of types no InvalidRepr is emitted.
C10_InvalidRepr ==
    (Returned /\ visitor = "dispatch_from_dyn") =>
        IF SameStructs(checked) /\ ReprCOrPacked(checked.self_ty)
        THEN InvalidReprs = { 1 }
        ELSE InvalidReprs = {}

\* a packed struct with one coerced field whose obligation holds: InvalidRepr alone
C10_Witness ==
    /\ Returned /\ visitor = "dispatch_from_dyn" /\ SameStructs(checked)
    /\ checked.self_ty.def.repr = "packed"
    /\ solver_called = 1
    /\ cx.errors = << >> /\ cx.region_errors = {}
    /\ Len(emitted) = 1
    /\ HasErrType(emitted[1], "InvalidRepr")

(***************************************************************************)
(* Properties of the dispatcher, over sessions with several impls.         *)
(***************************************************************************)
\* the validator check_trait has for the trait, if its lang item is defined
ExpectedVisitor ==
    IF trait_def_id \notin lang_items THEN "none"
    ELSE CASE trait_def_id = "Drop" -> "drop"
           [] trait_def_id = "Copy" -> "copy"
           [] trait_def_id = "CoerceUnsized" -> "coerce_unsized"
           [] trait_def_id = "DispatchFromDyn" -> "dispatch_from_dyn"
           [] OTHER -> "none"

\* the diagnostics emitted during call i of the log, once it has returned
emitted_for(i) ==
    SubSeq(sink, log[i].from + 1, IF i < Len(log) THEN log[i + 1].from ELSE Len(sink))

\* a diagnostic without the position of its impl in the registry
Relocated(d) ==
    IF "span" \in DOMAIN d /\ "impl" \in DOMAIN d.span
    THEN [d EXCEPT !.span = [@ EXCEPT !.impl = 0]]
    ELSE d
RelocatedAll(ds) == [k \in 1..Len(ds) |-> Relocated(ds[k])]

\* the solver gave the two calls the same answer
SameAnswer(a, b) ==
    \/ a = None /\ b = None
    \/ /\ a # None /\ b # None
       /\ Len(a.value.errors) = Len(b.value.errors)
       /\ a.value.region_obligations = b.value.region_obligations

\* C11: if the trait is one of the four and its lang item is defined, its validator
\* and no other is called once for each registered impl, in order; otherwise no
\* validator is called and nothing is emitted; two equal impls with the same solver
\* answers get the same diagnostics wherever they stand in the registry.
C11_Dispatcher ==
    /\ \A i \in 1..Len(log) :
          /\ log[i].impl_did = i
          /\ log[i].visitor = ExpectedVisitor
          /\ ExpectedVisitor # "none"
    /\ pc \notin { "check", "done", "aborted" } => Len(log) = idx
    /\ pc = "done" => Len(log) = IF ExpectedVisitor = "none" THEN 0 ELSE Len(impls)
    /\ ExpectedVisitor = "none" => sink = << >>
    /\ \A i, j \in 1..(idx - 1) :
          (i < j /\ impls[i] = impls[j] /\ SameAnswer(log[i].answer, log[j].answer))
             => RelocatedAll(emitted_for(i)) = RelocatedAll(emitted_for(j))

\* two equal impls of Copy, both visited and rejected
C11_Witness ==
    /\ pc = "done"
    /\ ExpectedVisitor = "copy"
    /\ Len(impls) = 2 /\ impls[1] = impls[2]
    /\ Len(log) = 2
    /\ emitted_for(1) # << >>
    /\ emitted_for(2) # << >>

\* C12 as stated: the session aborts only when the lang item of CoerceUnsized or of
\* DispatchFromDyn is missing.
C12_FatalAsStated ==
    pc = "aborted" => ("CoerceUnsized" \notin lang_items \/ "DispatchFromDyn" \notin lang_items)

\* what holds of the states of an abort
FatalOnlyWithoutUnsize ==
    /\ pc = "aborted" =>
          /\ ExpectedVisitor = "coerce_unsized"
          /\ "Unsize" \notin lang_items
          /\ idx = 1 /\ Len(log) = 1
          /\ Len(sink) = 1
          /\ sink[1].level = "fatal" /\ sink[1].lang_item = "Unsize"
          /\ coerce_unsized_info = << >>
    /\ (ExpectedVisitor = "coerce_unsized" /\ "Unsize" \notin lang_items) =>
          /\ pc \in { "check", "coerce_unsized", "aborted", "done" }
          /\ pc = "done" => impls = << >>
          /\ pc = "check" => idx = 1

\* C12: a validator is called only when the lang item of its own trait is defined;
\* the session aborts exactly when coerce_unsized_info finds the Unsize lang item
\* missing: on the first impl, with one fatal diagnostic, no CoerceUnsizedInfo, and
\* no step after it.
C12_Fatal == []FatalOnlyWithoutUnsize /\ [][pc # "aborted"]_vars

\* two impls of CoerceUnsized, no Unsize: aborted on the first
C12_Witness ==
    /\ pc = "aborted"
    /\ Len(impls) = 2
    /\ Len(log) = 1
    /\ Len(sink) = 1

\* check_trait has returned with every registered impl visited, or the session aborted
PassOver ==
    \/ pc = "aborted"
    \/ /\ pc = "done"
       /\ ExpectedVisitor # "none" => (idx = Len(impls) + 1 /\ Len(log) = Len(impls))

\* a validator is running
InCall == pc \notin { "check", "done", "aborted" }

\* C13: under sequential execution the pass ends, with every registered impl
\* visited unless the session aborted; a validator that is running returns or aborts
\* the session, whatever the earlier impls were given; and the E0204 diagnostic a
\* Copy call starts to build is emitted by the time the call returns.
C13_Progress ==
    /\ <>PassOver
    /\ InCall ~> ~InCall
    /\ (pc = "copy_field")
          ~> (Returned /\ Len(emitted) = 1 /\ HasCode(emitted[1], "E0204"))

\* two impls of DispatchFromDyn, the first rejected, both visited
C13_Witness ==
    /\ pc = "done"
    /\ ExpectedVisitor = "dispatch_from_dyn"
    /\ Len(impls) = 2
    /\ Len(log) = 2
    /\ emitted_for(1) # << >>
    /\ idx = 3

(***************************************************************************)
(* Properties of the two conversion validators, one impl a session.        *)
(***************************************************************************)
\* the shapes of a (source, target) pair
BothOfKind(impl, kind) == impl.self_ty.kind = kind /\ impl.target.kind = kind
StructPair(impl) ==
    /\ BothOfKind(impl, "Adt")
    /\ impl.self_ty.def.adt_kind = "Struct" /\ impl.target.def.adt_kind = "Struct"

\* C14: coerce_unsized_info rejects every pair that is not reference/reference,
\* reference/raw pointer, raw pointer/raw pointer or struct/struct with exactly one
\* CoerceUnsizedNotAStruct (E0376) and the kind None; the DispatchFromDyn check rejects
\* every pair that is not reference/reference, raw pointer/raw pointer or
\* struct/struct with exactly one NotAStruct.
C14_ShapeRejection ==
    /\ (Returned /\ visitor = "coerce_unsized"
          /\ ~PointerShape(checked) /\ ~StructPair(checked)) =>
          /\ Len(emitted) = 1
          /\ HasCode(emitted[1], "E0376")
          /\ solver_called = 0
          /\ returned_kind = None
    /\ (Returned /\ visitor = "dispatch_from_dyn"
          /\ ~BothOfKind(checked, "Ref") /\ ~BothOfKind(checked, "RawPtr")
          /\ ~StructPair(checked)) =>
          /\ Len(emitted) = 1
          /\ HasErrType(emitted[1], "NotAStruct")
          /\ solver_called = 0

\* CoerceUnsized from an enum to the same enum is rejected as not a struct
C14_Witness ==
    /\ Returned /\ visitor = "coerce_unsized"
    /\ BothOfKind(checked, "Adt")
    /\ checked.self_ty.def.adt_kind = "Enum"
    /\ checked.self_ty.def = checked.target.def
    /\ Len(emitted) = 1 /\ HasCode(emitted[1], "E0376")
    /\ returned_kind = None

\* C15: in the DispatchFromDyn check a reference/reference or raw pointer/raw pointer
\* pair is accepted without a diagnostic only if the two mutabilities are equal;
\* every mismatch, mutable to immutable included, is rejected with one diagnostic;
\* an accepted pointer pair has no field analysed and no obligation solved.
C15_DynPointerShapes ==
    (Returned /\ visitor = "dispatch_from_dyn"
       /\ (BothOfKind(checked, "Ref") \/ BothOfKind(checked, "RawPtr"))) =>
       /\ emitted = << >> => checked.self_ty.mutbl = checked.target.mutbl
       /\ checked.self_ty.mutbl # checked.target.mutbl =>
             /\ Len(emitted) = 1
             /\ HasErrType(emitted[1], "NotAStruct")
       /\ solver_called = 0
       /\ scopes_opened = 1
       /\ cx = None

\* a mutable reference to an immutable one is rejected
C15_Witness ==
    /\ Returned /\ visitor = "dispatch_from_dyn"
    /\ BothOfKind(checked, "Ref")
    /\ checked.self_ty.mutbl = "Mut" /\ checked.target.mutbl = "Not"
    /\ Len(emitted) = 1 /\ HasErrType(emitted[1], "NotAStruct")

\* a CoerceUnsized check of a reference/reference pair
RefToRef(impl) == visitor = "coerce_unsized" /\ BothOfKind(impl, "Ref")
\* the call reported no mismatched types and no unmet obligation
NothingButRegions == \A i \in 1..Len(emitted) : emitted[i] \in cx.region_errors

IsStructural(d) ==
    \E code \in { "E0308", "E0374", "E0375", "E0376", "E0377" } : HasCode(d, code)

\* C17 as stated: whenever coerce_unsized_info emits any diagnostic for the impl, the
\* kind it returns is None.
C17_KindOnlyOnSuccessAsStated ==
    (Returned /\ visitor = "coerce_unsized" /\ emitted # << >>) => returned_kind = None

\* C17: whenever coerce_unsized_info emits a diagnostic of its match (mutability,
\* not a struct, different definitions, no or too many coerced fields) the kind it
\* returns is None; an unmet obligation or a region error leaves the kind as it is;
\* whenever the kind Struct(i) is returned, the impl is struct to struct with the
\* same definition and field i is its only diff field.
C17_KindOnlyOnSuccess ==
    (Returned /\ visitor = "coerce_unsized") =>
       /\ (\E i \in 1..Len(emitted) : IsStructural(emitted[i])) => returned_kind = None
       /\ returned_kind # None =>
             /\ SameStructs(checked)
             /\ returned_kind.value.variant = "Struct"
             /\ DiffPositions(checked) = { returned_kind.value.field + 1 }
             /\ \A i \in 1..Len(emitted) :
                   \/ \E j \in 1..Len(cx.errors) :
                         emitted[i] = FulfillmentDiagnostic(cx.errors[j])
                   \/ emitted[i] \in cx.region_errors

\* the one diff field is field 1 and its obligation is unmet: the error is reported
\* and the kind Struct(1) is returned all the same
C17_Witness ==
    /\ Returned /\ visitor = "coerce_unsized" /\ SameStructs(checked)
    /\ DiffPositions(checked) = { 2 }
    /\ Len(cx.errors) = 1
    /\ Len(emitted) >= 1 /\ HasCode(emitted[1], "E0277")
    /\ returned_kind = Some([variant |-> "Struct", field |-> 1])

(***************************************************************************)
(* The field scan of the DispatchFromDyn check.                            *)
(***************************************************************************)
\* declared field k has a zero-sized layout of alignment 1
IsZstAlign1(impl, k) ==
    LET layout == layout_of(TyA(impl, k))
    IN  layout.tag = "Ok" /\ layout.sized /\ layout.size = 0 /\ layout.align = 1
\* the fields that pass the zero-size filter: the unchanged ones and the others
UnchangedPositions(impl) ==
    { k \in 1..Len(impl.self_ty.def.fields) :
        ~IsZstAlign1(impl, k) /\ TypeEqual(TyA(impl, k), TyB(impl, k)) }
DynDiffPositions(impl) ==
    { k \in 1..Len(impl.self_ty.def.fields) :
        ~IsZstAlign1(impl, k) /\ ~TypeEqual(TyA(impl, k), TyB(impl, k)) }

\* the InvalidFields diagnostics of the call, in the order emitted
IsInvalidFields(d) == HasErrType(d, "InvalidFields")
invalid_fields_emitted == SelectSeq(emitted, IsInvalidFields)

RECURSIVE InvalidFieldsOf(_, _, _)
\* one InvalidFields for every position of the set from k on, in declaration order
InvalidFieldsOf(impl, positions, k) ==
    IF k > Len(impl.self_ty.def.fields) THEN << >>
    ELSE (IF k \in positions
          THEN << InvalidDispatchFromDynDeclaration(
                     impl_span(idx - 1),
                     InvalidFields(impl.self_ty.def.fields[k].name,
                                   to_string(TyA(impl, k)))) >>
          ELSE << >>) \o InvalidFieldsOf(impl, positions, k + 1)

\* the fields the count was taken of, seen from the outcome of the call
CountedAs(impl, positions) ==
    CASE Cardinality(positions) = 0 ->
            /\ solver_called = 0
            /\ HasErrType(emitted[Len(emitted)], "NoCoercedFields")
      [] Cardinality(positions) = 1 ->
            /\ solver_called = 1
            /\ cx.coerced_fields = << impl.self_ty.def.fields[CHOOSE k \in positions : TRUE] >>
      [] OTHER ->
            /\ solver_called = 0
            /\ HasErrType(emitted[Len(emitted)], "TooManyCoercedFields")
            /\ emitted[Len(emitted)].args.coerced_fields_len = Cardinality(positions)

DynStructs(impl) == visitor = "dispatch_from_dyn" /\ SameStructs(impl)

\* C18 as stated: a field that passes the zero-size filter and is type-equal with no
\* residual obligation produces no diagnostic, and InvalidFields is emitted only for
\* a field whose equality check does not succeed without obligations.
C18_FieldClassificationAsStated ==
    (Returned /\ DynStructs(checked)) =>
        \A i \in 1..Len(invalid_fields_emitted) :
           /\ \E k \in DynDiffPositions(checked) :
                 invalid_fields_emitted[i].args.field_name
                    = checked.self_ty.def.fields[k].name
           /\ \A k \in UnchangedPositions(checked) :
                 invalid_fields_emitted[i].args.field_name
                    # checked.self_ty.def.fields[k].name

\* C18: a field that passes the zero-size filter and is type-equal with no residual
\* obligation is not a diff field and gets one InvalidFields naming the field and its
\* type; every other such field (equality fails, or succeeds with obligations left)
\* is a diff field and gets no InvalidFields.
C18_FieldClassification ==
    (Returned /\ DynStructs(checked)) =>
        /\ invalid_fields_emitted
              = InvalidFieldsOf(checked, UnchangedPositions(checked), 1)
        /\ CountedAs(checked, DynDiffPositions(checked))

\* an unchanged field of type i32 before the one diff field: InvalidFields for the
\* first, the obligation for the second
C18_Witness ==
    /\ Returned /\ DynStructs(checked)
    /\ UnchangedPositions(checked) = { 1 } /\ DynDiffPositions(checked) = { 2 }
    /\ Len(emitted) >= 1 /\ IsInvalidFields(emitted[1])
    /\ emitted[1].args.field_name = checked.self_ty.def.fields[1].name
    /\ solver_called = 1

\* the diagnostics the DispatchFromDyn check emits before it counts the fields
IsScanDiagnostic(d) == HasErrType(d, "InvalidRepr") \/ HasErrType(d, "InvalidFields")
\* the per-call prefix expected of a struct pair: InvalidRepr, then the InvalidFields
ScanPrefix(impl) ==
    (IF ReprCOrPacked(impl.self_ty)
     THEN << InvalidDispatchFromDynDeclaration(impl_span(idx - 1), InvalidRepr) >>
     ELSE << >>)
    \o InvalidFieldsOf(impl, UnchangedPositions(impl), 1)

\* C19: in the DispatchFromDyn check of a struct pair the InvalidRepr diagnostic (if
\* any) comes first, then one InvalidFields for each unchanged field in declaration
\* order, and only then the outcome of the field count (NoCoercedFields,
\* TooManyCoercedFields or the errors of the obligation); they are all in the sink
\* before the obligation is solved.  coerce_unsized_info emits nothing while it scans
\* the fields: nothing before its obligation is solved, and one diagnostic alone when
\* the count is not one.
C19_Ordering ==
    /\ (Returned /\ DynStructs(checked)) =>
          LET prefix == ScanPrefix(checked)
          IN  /\ Len(emitted) >= Len(prefix)
              /\ SubSeq(emitted, 1, Len(prefix)) = prefix
              /\ \A i \in (Len(prefix) + 1)..Len(emitted) : ~IsScanDiagnostic(emitted[i])
              /\ solver_called = 0 => Len(emitted) = Len(prefix) + 1
    /\ (pc = "dispatch_solve") =>
          LET before == SubSeq(sink, mark.sink + 1, Len(sink))
          IN  /\ Len(before) = Len(ScanPrefix(impls[idx]))
              /\ \A i \in 1..Len(before) : IsScanDiagnostic(before[i])
    /\ (pc = "coerce_solve" /\ SameStructs(impls[idx])) => Len(sink) = mark.sink
    /\ (Returned /\ visitor = "coerce_unsized" /\ SameStructs(checked)
          /\ solver_called = 0) => Len(emitted) = 1

\* a packed struct of two unchanged i32 fields: InvalidRepr, InvalidFields for f0,
\* InvalidFields for f1, NoCoercedFields
C19_Witness ==
    /\ Returned /\ DynStructs(checked)
    /\ checked.self_ty.def.repr = "packed"
    /\ UnchangedPositions(checked) = { 1, 2 }
    /\ Len(emitted) = 4
    /\ HasErrType(emitted[1], "InvalidRepr")
    /\ IsInvalidFields(emitted[2]) /\ emitted[2].args.field_name = "f0"
    /\ IsInvalidFields(emitted[3]) /\ emitted[3].args.field_name = "f1"
    /\ HasErrType(emitted[4], "NoCoercedFields")

\* the fields coerce_unsized_info took the count of, seen from the outcome of the call
CoerceCountedAs(impl, positions) ==
    CASE Cardinality(positions) = 0 ->
            /\ solver_called = 0
            /\ Len(emitted) = 1 /\ HasCode(emitted[1], "E0374")
      [] Cardinality(positions) = 1 ->
            /\ solver_called = 1
            /\ cx.source = TyA(impl, CHOOSE k \in positions : TRUE)
            /\ cx.target = TyB(impl, CHOOSE k \in positions : TRUE)
      [] OTHER ->
            /\ solver_called = 0
            /\ Len(emitted) = 1 /\ HasCode(emitted[1], "E0375")
            /\ emitted[1].coerced_fields_len = Cardinality(positions)
PhantomPositions(impl) == { k \in 1..Len(impl.self_ty.def.fields) : IsPhantom(impl, k) }
ZstPositions(impl) == { k \in 1..Len(impl.self_ty.def.fields) : IsZstAlign1(impl, k) }

\* C20: coerce_unsized_info never counts a field declared PhantomData among the diff
\* fields, and the DispatchFromDyn check never counts a field whose layout is
\* zero-sized with alignment 1 and never emits InvalidFields for it, whether or not
\* the types of the field under the two substitutions differ: the outcome of the
\* field count is that of the other fields alone.
C20_FilteredFields ==
    /\ (Returned /\ visitor = "coerce_unsized" /\ SameStructs(checked)) =>
          CoerceCountedAs(checked, { k \in 1..Len(checked.self_ty.def.fields)
                                         \ PhantomPositions(checked) :
                                       ~TypeEqual(TyA(checked, k), TyB(checked, k)) })
    /\ (Returned /\ DynStructs(checked)) =>
          /\ CountedAs(checked, { k \in 1..Len(checked.self_ty.def.fields)
                                        \ ZstPositions(checked) :
                                      ~TypeEqual(TyA(checked, k), TyB(checked, k)) })
          /\ \A k \in ZstPositions(checked) :
                \A i \in 1..Len(invalid_fields_emitted) :
                   invalid_fields_emitted[i].args.field_name
                      # checked.self_ty.def.fields[k].name

\* DispatchFromDyn for S { f0: PhantomData<U>, f1: T } with both parameters changed:
\* the marker field differs and is not counted, f1 is the one coerced field
C20_Witness ==
    /\ Returned /\ DynStructs(checked)
    /\ ZstPositions(checked) = { 1 }
    /\ TyA(checked, 1) # TyB(checked, 1)
    /\ eq(TyA(checked, 1), TyB(checked, 1)).tag = "Err"
    /\ DynDiffPositions(checked) = { 2 }
    /\ solver_called = 1
    /\ cx.errors = << >> /\ cx.region_errors = {}
    /\ emitted = << >>

RECURSIVE ListedOf(_, _, _)
\* the fields of the set from declared position k on: name (TyA -> TyB), joined
\* with ", "
ListedOf(impl, positions, k) ==
    IF k > Len(impl.self_ty.def.fields) THEN ""
    ELSE IF k \notin positions THEN ListedOf(impl, positions, k + 1)
    ELSE impl.self_ty.def.fields[k].name
            \o " (" \o to_string(TyA(impl, k)) \o " -> " \o to_string(TyB(impl, k)) \o ")"
            \o (IF \E j \in positions : j > k THEN ", " ELSE "")
            \o ListedOf(impl, positions, k + 1)

\* the positions in the call's diagnostics of one error type
OfErrType(tag) == { i \in 1..Len(emitted) : HasErrType(emitted[i], tag) }
IsRegionError(d) == "kind" \in DOMAIN d /\ d.kind = "RegionResolutionError"
\* the diagnostics of the call after the field scan
AfterScan(impl) == SubSeq(emitted, Len(ScanPrefix(impl)) + 1, Len(emitted))

\* C21: the DispatchFromDyn check of a struct pair with one definition, whatever its
\* repr, ends the field scan in exactly one way.  No diff field: one NoCoercedFields.
\* Two or more: one TooManyCoercedFields with their number and every diff field as
\* name (TyA -> TyB).  Exactly one: the obligation TyA: DispatchFromDyn<TyB> of that
\* field is solved, its errors are reported, and the region errors come after them.
\* The solver is called and the regions are resolved in that last case only.
C21_DynFieldCount ==
    /\ (Returned /\ DynStructs(checked)) =>
          LET diff == DynDiffPositions(checked)
              rest == AfterScan(checked)
          IN  /\ Cardinality(OfErrType("NoCoercedFields")) =
                    (IF Cardinality(diff) = 0 THEN 1 ELSE 0)
              /\ Cardinality(OfErrType("TooManyCoercedFields")) =
                    (IF Cardinality(diff) >= 2 THEN 1 ELSE 0)
              /\ Cardinality(diff) >= 2 =>
                    /\ rest = << InvalidDispatchFromDynDeclaration(
                                    impl_span(idx - 1),
                                    [tag |-> "TooManyCoercedFields",
                                     coerced_fields_len |-> Cardinality(diff),
                                     coerced_fields |-> ListedOf(checked, diff, 1)]) >>
              /\ Cardinality(diff) # 1 =>
                    /\ solver_called = 0
                    /\ cx = None
                    /\ Len(rest) = 1
              /\ Cardinality(diff) = 1 =>
                    LET k == CHOOSE k \in diff : TRUE
                    IN  /\ solver_called = 1
                        /\ cx.predicate = predicate_for_trait_def(
                                              "DispatchFromDyn", TyA(checked, k),
                                              TyB(checked, k))
                        /\ rest = [i \in 1..Len(cx.errors) |->
                                      FulfillmentDiagnostic(cx.errors[i])]
                                  \o SetToSeq(cx.region_errors)
    /\ (pc = "dispatch_regions") =>
          /\ Cardinality(DynDiffPositions(impls[idx])) = 1
          /\ solver_calls - mark.solver_calls = 1
          /\ Len(sink) - mark.sink = Len(ScanPrefix(impls[idx])) + Len(cx.errors)
          /\ cx.region_errors = {}

\* a repr(C) struct with one diff field whose obligation is unmet and leaves a region
\* obligation unproved: InvalidRepr, the unmet obligation, the region error
C21_Witness ==
    /\ Returned /\ DynStructs(checked)
    /\ checked.self_ty.def.repr = "C"
    /\ Cardinality(DynDiffPositions(checked)) = 1
    /\ solver_called = 1
    /\ Len(emitted) = 3
    /\ HasErrType(emitted[1], "InvalidRepr")
    /\ HasCode(emitted[2], "E0277")
    /\ IsRegionError(emitted[3])

\* struct to struct, two definitions
DifferentStructs(impl) == StructPair(impl) /\ impl.self_ty.def.did # impl.target.def.did

\* C22: a struct to struct impl whose two types have different definitions gets
\* exactly one diagnostic naming the paths of both definitions, source first:
\* CoerceUnsizedInvalidDefinition (E0377) from coerce_unsized_info, which returns the
\* kind None, and TypesDifferTooMuch from the DispatchFromDyn check, whatever the
\* repr; no field is scanned and no obligation is registered or solved.
C22_BaseTypeMismatch ==
    (Returned /\ visitor \in { "coerce_unsized", "dispatch_from_dyn" }
       /\ DifferentStructs(checked)) =>
        /\ visitor = "coerce_unsized" =>
              /\ emitted = << [slug |-> "typeck::coerce_unsized_invalid_definition",
                               code |-> "E0377", span |-> impl_span(idx - 1),
                               source_path |-> checked.self_ty.def.did.path,
                               target_path |-> checked.target.def.did.path] >>
              /\ returned_kind = None
        /\ visitor = "dispatch_from_dyn" =>
              /\ Len(emitted) = 1
              /\ emitted[1].code = "E0378"
              /\ emitted[1].span = impl_span(idx - 1)
              /\ emitted[1].args = [tag |-> "TypesDifferTooMuch",
                                    source_path |-> checked.self_ty.def.did.path,
                                    target_path |-> checked.target.def.did.path]
        /\ solver_called = 0
        /\ scopes_opened = 1
        /\ cx = None

\* CoerceUnsized from the struct S to the struct R
C22_Witness ==
    /\ Returned /\ visitor = "coerce_unsized" /\ DifferentStructs(checked)
    /\ checked.self_ty.def.did.path = "S" /\ checked.target.def.did.path = "R"
    /\ Len(emitted) = 1 /\ HasCode(emitted[1], "E0377")
    /\ emitted[1].source_path = "S" /\ emitted[1].target_path = "R"
    /\ returned_kind = None

(***************************************************************************)
(* The notes of the Copy check.                                            *)
(***************************************************************************)
\* the key of the unmet predicate p of a field of type ty
NoteKey(ty, p) == << to_string(ty), predicate_to_string(p) >>
\* the unmet predicates of a field of type ty that are not its root obligation
NotRoot(ty) ==
    SelectSeq(solver[ty], LAMBDA p : p # TraitPredicate(ty, "Copy"))

RECURSIVE SpansOfKey(_, _, _)
\* the spans recorded under a key by the fields from k on: the span of the field's
\* type, once for each unmet predicate of the field with that key
SpansOfKey(fields, key, k) ==
    IF k > Len(fields) THEN << >>
    ELSE LET hits == SelectSeq(NotRoot(fields[k].ty),
                               LAMBDA p : NoteKey(fields[k].ty, p) = key)
         IN  [i \in 1..Len(hits) |-> field_ty_span(fields[k].field)]
                \o SpansOfKey(fields, key, k + 1)

\* C23: the E0204 diagnostic has a note for the key (field type text, predicate
\* text) exactly when some unmet predicate of some infringing field has that key and
\* is not the field's root obligation; no two notes have the same key; the note of a
\* key carries the spans of all the fields that gave it, in field order; when every
\* unmet predicate is a root obligation there is no note.
C23_NoteAggregation ==
    (Returned /\ visitor = "copy" /\ verdict = "InfrigingFields") =>
        LET notes == emitted[1].notes
            key(i) == << notes[i].ty, notes[i].error_predicate >>
        IN  /\ Len(emitted) = 1
            /\ \A i, j \in 1..Len(notes) : key(i) = key(j) => i = j
            /\ \A k \in 1..Len(returned_fields) :
                  \A e \in 1..Len(solver[returned_fields[k].ty]) :
                     LET ty == returned_fields[k].ty
                         p == solver[ty][e]
                     IN  p # TraitPredicate(ty, "Copy")
                            <=> \E i \in 1..Len(notes) :
                                   /\ key(i) = NoteKey(ty, p)
                                   /\ \E n \in 1..Len(notes[i].span) :
                                         notes[i].span[n]
                                            = field_ty_span(returned_fields[k].field)
            /\ \A i \in 1..Len(notes) :
                  /\ notes[i].span # << >>
                  /\ notes[i].span = SpansOfKey(returned_fields, key(i), 1)

\* two infringing fields of type Q<T, U>, T: Copy unmet for both: one note for the
\* key, with the spans of both fields
C23_Witness ==
    /\ Returned /\ visitor = "copy" /\ verdict = "InfrigingFields"
    /\ Len(returned_fields) = 2
    /\ returned_fields[1].ty = TyQ /\ returned_fields[2].ty = TyQ
    /\ solver[TyQ] = << TraitPredicate(TyT, "Copy") >>
    /\ Len(emitted) = 1
    /\ Len(emitted[1].notes) = 1
    /\ emitted[1].notes[1].span = << field_ty_span(returned_fields[1].field),
                                     field_ty_span(returned_fields[2].field) >>

\* the spans of the notes of a diagnostic, and the notes a field's span is in
NotesWith(d, span) ==
    { i \in 1..Len(d.notes) : \E n \in 1..Len(d.notes[i].span) : d.notes[i].span[n] = span }

\* C24: the Copy check enters one new inference context for each infringing field,
\* just before the solver is called for the field, and leaves it just after: while
\* field fi waits there is no live context and fi - 1 contexts and solver calls
\* have been made; during its solver call the one live context is the fi-th, new
\* and ignoring regions; at no time are two contexts live; at the end as many
\* contexts were entered as fields were solved.  What is noted for a field depends
\* on its type alone: two fields of one type are in the same notes.
C24_CopyScopes ==
    visitor = "copy" =>
        /\ Len(infcx) <= 1
        /\ pc = "copy_field" =>
              /\ infcx = << >>
              /\ infcx_created - mark.infcx_created = fi - 1
              /\ solver_calls - mark.solver_calls = fi - 1
        /\ pc = "copy_solve" =>
              /\ Len(infcx) = 1
              /\ infcx[1].id = mark.infcx_created + fi
              /\ infcx[1].ignoring_regions
              /\ infcx[1].region_obligations = {}
              /\ infcx_created - mark.infcx_created = fi
              /\ solver_calls - mark.solver_calls = fi - 1
        /\ pc = "copy_exit" =>
              /\ Len(infcx) = 1
              /\ infcx[1].id = mark.infcx_created + fi
              /\ infcx_created - mark.infcx_created = fi
              /\ solver_calls - mark.solver_calls = fi
        /\ Returned =>
              /\ infcx = << >>
              /\ verdict = "InfrigingFields" =>
                    /\ scopes_opened = Len(returned_fields)
                    /\ solver_called = Len(returned_fields)
                    /\ \A j, k \in 1..Len(returned_fields) :
                          returned_fields[j].ty = returned_fields[k].ty =>
                             NotesWith(emitted[1], field_ty_span(returned_fields[j].field))
                                = NotesWith(emitted[1],
                                            field_ty_span(returned_fields[k].field))
              /\ verdict # "InfrigingFields" => scopes_opened = 0 /\ solver_called = 0

\* the second of two infringing fields is being solved: its context is the second
\* entered and the only one live
C24_Witness ==
    /\ visitor = "copy" /\ pc = "copy_solve"
    /\ fi = 2 /\ Len(infringing_fields) = 2
    /\ Len(infcx) = 1
    /\ infcx[1].id = mark.infcx_created + 2
    /\ solver_calls - mark.solver_calls = 1

\* C25: the diagnostic coerce_unsized_info emits for two or more diff fields
\* carries a message identifier of its own, different from the identifier of the
\* diagnostic it emits for no diff field.
C25_DistinctFieldCountMessages ==
    (Returned /\ visitor = "coerce_unsized" /\ SameStructs(checked)
       /\ Cardinality(DiffPositions(checked)) >= 2) =>
        /\ Len(emitted) = 1
        /\ emitted[1].code = "E0375"
        /\ emitted[1].slug # CoerceUnsizedNoCoercedField(impl_span(idx - 1)).slug

\* two diff fields: the E0375 diagnostic has the identifier of the E0374 one
C25_SameSlug ==
    /\ Returned /\ visitor = "coerce_unsized" /\ SameStructs(checked)
    /\ Cardinality(DiffPositions(checked)) = 2
    /\ Len(emitted) = 1
    /\ emitted[1].code = "E0375"
    /\ emitted[1].slug = "typeck::coerce_unsized_no_coerced_field"

====
